---- MODULE Spec2Model ----
(***************************************************************************)
(* A model of the content normalization pipeline of the repository:       *)
(*   src/generate_task_mdx.py  the inline math / list post-processor       *)
(*   src/transform_tasks.py    the HTML sanitizer and the renderer         *)
(* A string is a sequence of one-character strings; an HTML fragment is a  *)
(* tree of records.  Pure functions are operators; loops are modelled by a *)
(* step operator on the record of the loop's locals, which the actions     *)
(* apply one iteration at a time and the operators iterate to the end.     *)
(***************************************************************************)
EXTENDS Integers, Sequences, FiniteSets, TLC

VARIABLES
    pc,          \* position of the running function
    text,        \* the input string of the function under study
    task_number, \* the task's category: Some(5), Some(another number) or None
    italic_vars, \* the iteration order of the set TASK5_ITALIC_VARS in this run
    sp,          \* _split_by_math_spans: its locals i, mode, buf, segments
    prev,        \* _merge_equals_in_text: prev
    merged,      \* _merge_equals_in_text: merged
    md_lines,    \* normalize_math_in_markdown: the lines still to be read
    nm,          \* normalize_math_in_markdown: out, buffer, in_fence, fence
    out,         \* the value returned
    raw_html,    \* clean_html: the HTML string it is given, as tokens
    root,        \* clean_html: root.contents, the nodes of the fragment
    stats,       \* clean_html: the diagnostic counters
    notice,      \* clean_html: attachments_notice_removed
    cleaned,     \* clean_html: the cleaned HTML string, as tokens
    run,         \* how many times clean_html has been started on the fragment
    number_map,  \* generate_task_mdx: the object read from task_numbers_by_internal_id.json
    internal_id, \* generate_task_mdx.main: internal_id
    row,         \* transform_tasks.main: the record of the task being processed
    kes_text_by_code, \* transform_tasks.main: the reference table
    codes,       \* transform_tasks.main: codes of the task being processed
    seen         \* transform_tasks.main: seen of the task being processed

\* what the Markdown post-processor works on
textVars == <<text, task_number, italic_vars, sp, prev, merged, md_lines, nm, out>>

\* what the sanitizer works on
htmlVars == <<raw_html, root, stats, notice, cleaned, run>>

\* what the two main functions work on
jobVars == <<number_map, internal_id, row, kes_text_by_code, codes, seen>>

vars == <<pc, textVars, htmlVars, jobVars>>

\* the counters of a fresh Counter: every one reads as 0
NoStats ==
    [showpictureq2_link |-> 0, showpictureq2_img |-> 0, showpictureq_replaced |-> 0,
     math_dash_replaced |-> 0, math_kept |-> 0, empty_anchor_removed |-> 0,
     anchor_unwrapped |-> 0, attachments_notice_removed |-> 0,
     attachment_link_rows_removed |-> 0, empty_tag_removed |-> 0,
     empty_table_removed |-> 0, wrapper_unwrapped |-> 0,
     kes_invalid_items |-> 0, kes_conflicts |-> 0, rows |-> 0, kes_items_written |-> 0]

\* the sanitizer is not running
IdleClean ==
    /\ raw_html = <<>>
    /\ root = <<>>
    /\ stats = NoStats
    /\ notice = FALSE
    /\ cleaned = <<>>
    /\ run = 0

\* the record of a task before any is read: kes is meta["KES"], i the place of
\* the for loop in it; read is the history of the entries read so far, of
\* all the tasks
NoRow ==
    [kes |-> <<>>, i |-> 1, attachments |-> <<>>, question_text |-> <<>>,
     requires_attachments |-> FALSE, read |-> {}]

\* neither main function is running
IdleJob ==
    /\ number_map = {}
    /\ internal_id = <<>>
    /\ row = NoRow
    /\ kes_text_by_code = <<>>
    /\ codes = <<>>
    /\ seen = {}

(***************************************************************************)
(* Bounds of the model.                                                    *)
(***************************************************************************)
\* the longest input, counted in tokens of the alphabet an input is drawn from
MaxLen == 5

\* the longest chain of nested td/tr/tbody wrappers around a fragment
MaxChain == 3

(***************************************************************************)
(* Characters and string helpers (Python str methods and re classes).      *)
(***************************************************************************)
\* Optional values (Python's None): <<>> is None, <<v>> is the value v
None == <<>>

Some(v) == <<v>>

Digits == {"0", "1", "2", "3"}

\* [A-Za-zА-Яа-я]: the letters of SUB_SUP_BASE_RE and TASK5_NUMBER_TOKEN_RE
Letters == {"a", "b", "c", "x", "y", "N", "R", "t"}

\* \s of Python's re, str.strip() and str.isspace()
Whitespace == {" ", "\n", "\t"}

\* \w of Python's re: what \b looks at
IsWordChar(c) == c \in Digits \cup Letters \cup {"_"}

\* [0-9A-Za-zА-Яа-я_]: the look-around class of TASK5_NUMBER_TOKEN_RE
IsTokenChar(c) == c \in Digits \cup Letters \cup {"_"}

\* the backtick character, which a TLA+ string cannot hold
Backtick == "BT"

Min(a, b) == IF a < b THEN a ELSE b

Max(a, b) == IF a > b THEN a ELSE b

\* the least index of a set of indexes, 0 when the set is empty
First(indexes) ==
    CHOOSE r \in {IF found = {} THEN 0 ELSE CHOOSE j \in found : \A k \in found : j <= k :
                  found \in {indexes}} : TRUE

\* s[i:] with a 1-based i
From(s, i) == SubSeq(s, i, Len(s))

\* s[:i] exclusive of the 1-based i
Upto(s, i) == SubSeq(s, 1, i - 1)

IsBlank(s) == \A k \in 1..Len(s) : s[k] \in Whitespace

RECURSIVE LStrip(_)
LStrip(s) == IF s # <<>> /\ Head(s) \in Whitespace THEN LStrip(Tail(s)) ELSE s

RECURSIVE RStrip(_)
RStrip(s) ==
    IF s # <<>> /\ s[Len(s)] \in Whitespace THEN RStrip(SubSeq(s, 1, Len(s) - 1)) ELSE s

Strip(s) == LStrip(RStrip(s))

StartsWith(s, p) == Len(s) >= Len(p) /\ SubSeq(s, 1, Len(p)) = p

EndsWith(s, p) == Len(s) >= Len(p) /\ SubSeq(s, Len(s) - Len(p) + 1, Len(s)) = p

\* "".join(parts)
RECURSIVE Join(_)
Join(parts) == IF parts = <<>> THEN <<>> ELSE Head(parts) \o Join(Tail(parts))

\* the strings over an alphabet of length at most n
RECURSIVE StringsUpTo(_, _)
StringsUpTo(alphabet, n) ==
    IF n = 0 THEN {<<>>}
    ELSE LET shorter == StringsUpTo(alphabet, n - 1)
         IN  shorter \cup {Append(s, c) : s \in {t \in shorter : Len(t) = n - 1}, c \in alphabet}

(***************************************************************************)
(* _split_by_math_spans                                                    *)
(***************************************************************************)
\* i is 1-based here: the code's 0-based i plus one
SplitStart == [i |-> 1, mode |-> "text", buf |-> <<>>, segments |-> <<>>]

\* a flush that keeps formulas only: plain text is lost
FlushDropsPlain(segments, buf, is_math) ==
    IF buf = <<>> \/ ~is_math THEN segments
    ELSE Append(segments, [str |-> buf, math |-> is_math])

\* flush(is_math): an empty buffer adds no segment
Flush(segments, buf, is_math) ==
    IF buf = <<>> THEN segments ELSE Append(segments, [str |-> buf, math |-> is_math])

\* text[i - 1] != "\\" with the guard i == 0 of the text and display modes
NotEscaped(t, i) == i = 1 \/ t[i - 1] # "\\"

\* the bound check off by one: a $$ that ends the text is not seen
AtDisplayDelimiterOffByOne(t, i) ==
    /\ t[i] = "$"
    /\ i + 2 <= Len(t)
    /\ t[i + 1] = "$"
    /\ NotEscaped(t, i)

\* ch == "$" and i + 1 < n and text[i : i + 2] == "$$" and not escaped
AtDisplayDelimiter(t, i) ==
    /\ t[i] = "$"
    /\ i + 1 <= Len(t)
    /\ t[i + 1] = "$"
    /\ NotEscaped(t, i)

\* one iteration of the while loop
SplitStep(t, s) ==
    LET ch == t[s.i] IN
    CASE s.mode = "text" ->
            IF AtDisplayDelimiter(t, s.i)
            THEN [i |-> s.i + 2, mode |-> "display", buf |-> <<"$", "$">>,
                  segments |-> Flush(s.segments, s.buf, FALSE)]
            ELSE IF ch = "$" /\ NotEscaped(t, s.i)
            THEN [i |-> s.i + 1, mode |-> "inline", buf |-> <<"$">>,
                  segments |-> Flush(s.segments, s.buf, FALSE)]
            ELSE [s EXCEPT !.i = s.i + 1, !.buf = Append(s.buf, ch)]
      [] s.mode = "inline" ->
            IF ch = "$" /\ t[s.i - 1] # "\\"
            THEN [i |-> s.i + 1, mode |-> "text", buf |-> <<>>,
                  segments |-> Flush(s.segments, Append(s.buf, ch), TRUE)]
            ELSE [s EXCEPT !.i = s.i + 1, !.buf = Append(s.buf, ch)]
      [] OTHER ->
            IF AtDisplayDelimiter(t, s.i)
            THEN [i |-> s.i + 2, mode |-> "text", buf |-> <<>>,
                  segments |-> Flush(s.segments, s.buf \o <<"$", "$">>, TRUE)]
            ELSE [s EXCEPT !.i = s.i + 1, !.buf = Append(s.buf, ch)]

\* the final flush(mode != "text") and the return
SplitFinish(s) == Flush(s.segments, s.buf, s.mode # "text")

RECURSIVE SplitLoop(_, _)
SplitLoop(t, s) == IF s.i <= Len(t) THEN SplitLoop(t, SplitStep(t, s)) ELSE SplitFinish(s)

_split_by_math_spans(t) ==
    IF t = <<>> THEN <<[str |-> <<>>, math |-> FALSE]>> ELSE SplitLoop(t, SplitStart)

(***************************************************************************)
(* _wrap_numbers_in_plain_text                                             *)
(***************************************************************************)
\* text.find(c, i): the first index k >= i with t[k] = c, 0 when there is none
RECURSIVE Find(_, _, _)
Find(t, c, i) ==
    IF i > Len(t) THEN 0 ELSE IF t[i] = c THEN i ELSE Find(t, c, i + 1)

\* the end (exclusive) of the run of characters of class cls that starts at i
RECURSIVE RunEnd(_, _, _)
RunEnd(t, cls, i) ==
    IF i <= Len(t) /\ t[i] \in cls THEN RunEnd(t, cls, i + 1) ELSE i

\* TASK5_NUMBER_TOKEN_RE.match(text, i): the end (exclusive) of the match, 0
\* when there is none.  (?<![0-9A-Za-zА-Яа-я_])\d+(?![0-9A-Za-zА-Яа-я_])
Task5NumberTokenEnd(t, i) ==
    LET e == RunEnd(t, Digits, i) IN
    IF /\ i <= Len(t)
       /\ t[i] \in Digits
       /\ (i = 1 \/ ~IsTokenChar(t[i - 1]))
       /\ (e > Len(t) \/ ~IsTokenChar(t[e]))
    THEN e ELSE 0

\* the inner while of the link destination: j after the scan
RECURSIVE DestinationEnd(_, _, _)
DestinationEnd(t, j, depth) ==
    IF j <= Len(t) /\ depth # 0
    THEN DestinationEnd(t, j + 1,
                        IF t[j] = "(" THEN depth + 1
                        ELSE IF t[j] = ")" THEN depth - 1 ELSE depth)
    ELSE j

\* the while loop stops copying single characters at i: a tag opens, a link
\* destination opens or a number token starts
WrapStopsAt(t, i) ==
    \/ t[i] = "<"
    \/ t[i] = "]" /\ i + 1 <= Len(t) /\ t[i + 1] = "("
    \/ Task5NumberTokenEnd(t, i) # 0

\* the while loop from i: the characters up to the next stop are copied one
\* by one, the stop is handled by its branch
RECURSIVE WrapFrom(_, _)
WrapFrom(t, i) ==
    CHOOSE r \in {
        IF s = 0 THEN From(t, i)
        ELSE SubSeq(t, i, s - 1) \o
             (IF t[s] = "<"
              THEN LET j == Find(t, ">", s + 1) IN
                   IF j = 0 THEN From(t, s)
                   ELSE SubSeq(t, s, j) \o WrapFrom(t, j + 1)
              ELSE IF t[s] = "]" /\ s + 1 <= Len(t) /\ t[s + 1] = "("
              THEN LET j == DestinationEnd(t, s + 2, 1) IN
                   SubSeq(t, s, j - 1) \o WrapFrom(t, j)
              ELSE LET e == Task5NumberTokenEnd(t, s) IN
                   <<"$">> \o SubSeq(t, s, e - 1) \o <<"$">> \o WrapFrom(t, e)) :
        s \in {First({k \in i..Len(t) : WrapStopsAt(t, k)})}} : TRUE

_wrap_numbers_in_plain_text(t) == WrapFrom(t, 1)

(***************************************************************************)
(* convert_task5_numbers_to_math                                           *)
(***************************************************************************)
\* str.splitlines(keepends=True)
RECURSIVE SplitLinesKeepEnds(_)
SplitLinesKeepEnds(t) ==
    IF t = <<>> THEN <<>>
    ELSE LET j == Find(t, "\n", 1) IN
         IF j = 0 THEN <<t>>
         ELSE <<SubSeq(t, 1, j)>> \o SplitLinesKeepEnds(From(t, j + 1))

\* ORDERED_ITEM_RE.match(line).end() as a count of characters; 0: no match.
\* ^(?P<indent>[ \t]*)(?:\d+[.)])\s+
OrderedItemEnd(line) ==
    LET d == RunEnd(line, {" ", "\t"}, 1)
        e == RunEnd(line, Digits, d)
        w == RunEnd(line, Whitespace, e + 1)
    IN  IF /\ e > d
           /\ e <= Len(line)
           /\ line[e] \in {".", ")"}
           /\ w > e + 1
        THEN w - 1 ELSE 0

WrapLine(line) ==
    LET m == OrderedItemEnd(line) IN
    IF m = 0 THEN _wrap_numbers_in_plain_text(line)
    ELSE SubSeq(line, 1, m) \o _wrap_numbers_in_plain_text(From(line, m + 1))

RECURSIVE WrapLines(_)
WrapLines(lines) ==
    IF lines = <<>> THEN <<>> ELSE WrapLine(Head(lines)) \o WrapLines(Tail(lines))

\* the is_math test forgotten: formulas are wrapped too
WrapSegmentAlways(seg) == WrapLines(SplitLinesKeepEnds(seg.str))

WrapSegment(seg) == IF seg.math THEN seg.str ELSE WrapLines(SplitLinesKeepEnds(seg.str))

RECURSIVE WrapSegments(_)
WrapSegments(segments) ==
    IF segments = <<>> THEN <<>>
    ELSE WrapSegment(Head(segments)) \o WrapSegments(Tail(segments))

convert_task5_numbers_to_math(markdown) == WrapSegments(_split_by_math_spans(markdown))

(***************************************************************************)
(* _merge_equals_in_text and its three patterns                            *)
(***************************************************************************)
NoMatch == [ok |-> FALSE, end |-> 0, a |-> <<>>, b |-> <<>>]

\* the end (exclusive) of the run of [^$\n] that starts at i
RECURSIVE MathBodyEnd(_, _)
MathBodyEnd(t, i) ==
    IF i <= Len(t) /\ t[i] \notin {"$", "\n"} THEN MathBodyEnd(t, i + 1) ELSE i

\* \$(?P<x>[^$\n]+?)\$ at i: the index after the closing dollar, 0: no match
MathOperandEnd(t, i) ==
    LET e == MathBodyEnd(t, i + 1) IN
    IF /\ i <= Len(t)
       /\ t[i] = "$"
       /\ e > i + 1
       /\ e <= Len(t)
       /\ t[e] = "$"
    THEN e + 1 ELSE 0

\* \b\d+\b at i: the index after the digits, 0: no match
NumOperandEnd(t, i) ==
    LET e == RunEnd(t, Digits, i) IN
    IF /\ i <= Len(t)
       /\ t[i] \in Digits
       /\ (i = 1 \/ ~IsWordChar(t[i - 1]))
       /\ (e > Len(t) \/ ~IsWordChar(t[e]))
    THEN e ELSE 0

\* \s*=\s* at i: the index after it, 0: no match
EqualsEnd(t, i) ==
    LET j == RunEnd(t, Whitespace, i) IN
    IF j <= Len(t) /\ t[j] = "=" THEN RunEnd(t, Whitespace, j + 1) ELSE 0

MATH_EQ_MATH_RE == "MATH_EQ_MATH_RE"

NUM_EQ_MATH_RE == "NUM_EQ_MATH_RE"

MATH_EQ_NUM_RE == "MATH_EQ_NUM_RE"

MergePatterns == <<MATH_EQ_MATH_RE, NUM_EQ_MATH_RE, MATH_EQ_NUM_RE>>

\* pattern.match(t, i): operand a, "=", operand b
MatchAt(pattern, t, i) ==
    LET aMath == pattern # NUM_EQ_MATH_RE
        bMath == pattern # MATH_EQ_NUM_RE
        ae == IF aMath THEN MathOperandEnd(t, i) ELSE NumOperandEnd(t, i)
        bs == IF ae = 0 THEN 0 ELSE EqualsEnd(t, ae)
        be == IF bs = 0 THEN 0
              ELSE IF bMath THEN MathOperandEnd(t, bs) ELSE NumOperandEnd(t, bs)
    IN  IF be = 0 THEN NoMatch
        ELSE [ok |-> TRUE, end |-> be,
              a |-> IF aMath THEN SubSeq(t, i + 1, ae - 2) ELSE SubSeq(t, i, ae - 1),
              b |-> IF bMath THEN SubSeq(t, bs + 1, be - 2) ELSE SubSeq(t, bs, be - 1)]

\* a replacement that keeps the whitespace of the operands
MergeReplacementUnstripped(m) == <<"$">> \o m.a \o <<" ", "=", " ">> \o m.b \o <<"$">>

\* the replacement lambda: f"${a.strip()} = {b.strip()}$"
MergeReplacement(m) == <<"$">> \o Strip(m.a) \o <<" ", "=", " ">> \o Strip(m.b) \o <<"$">>

\* pattern.sub(replacement, t): leftmost matches, left to right, not overlapping
\* pattern.search(t, i).start(): where the leftmost match from i starts, 0: no match
SearchFrom(pattern, t, i) == First({j \in i..Len(t) : MatchAt(pattern, t, j).ok})

RECURSIVE SubFrom(_, _, _)
SubFrom(pattern, t, i) ==
    CHOOSE r \in {IF j = 0 THEN SubSeq(t, i, Len(t))
                  ELSE CHOOSE matched \in {SubSeq(t, i, j - 1) \o MergeReplacement(m)
                                             \o SubFrom(pattern, t, m.end) :
                                           m \in {MatchAt(pattern, t, j)}} : TRUE :
                  j \in {SearchFrom(pattern, t, i)}} : TRUE

ReSub(pattern, t) == SubFrom(pattern, t, 1)

\* a round that applies the first pattern only
MergeRoundMathOnly(t) == ReSub(MATH_EQ_MATH_RE, t)

\* one round of the while loop: the three substitutions in the code's order
\* (each intermediate string is bound to its value, computed once)
MergeRoundOf(t) ==
    CHOOSE third \in {ReSub(MATH_EQ_NUM_RE, second) :
                        second \in {ReSub(NUM_EQ_MATH_RE, first) :
                                      first \in {ReSub(MATH_EQ_MATH_RE, t)}}} : TRUE

\* while prev != merged, with prev an optional string
RECURSIVE MergeLoop(_, _)
MergeLoop(p, m) == IF p # Some(m) THEN MergeLoop(Some(m), MergeRoundOf(m)) ELSE m

_merge_equals_in_text(t) == MergeLoop(None, t)

(***************************************************************************)
(* convert_task5_vars_to_math                                              *)
(***************************************************************************)
\* str.replace(old, new): the occurrences of old left to right, not overlapping
RECURSIVE ReplaceFrom(_, _, _, _)
ReplaceFrom(t, old, new, i) ==
    CHOOSE r \in {IF j = 0 THEN From(t, i)
                  ELSE SubSeq(t, i, j - 1) \o new \o ReplaceFrom(t, old, new, j + Len(old)) :
                  j \in {First({k \in i..Len(t) :
                                  /\ k + Len(old) - 1 <= Len(t)
                                  /\ SubSeq(t, k, k + Len(old) - 1) = old})}} : TRUE

Replace(t, old, new) == ReplaceFrom(t, old, new, 1)

\* for var in TASK5_ITALIC_VARS: the set is iterated in the order italic_vars
RECURSIVE VarsToMath(_, _)
VarsToMath(t, order) ==
    IF order = <<>> THEN t
    ELSE VarsToMath(Replace(t, <<"*", Head(order), "*">>, <<"$", Head(order), "$">>),
                    Tail(order))

convert_task5_vars_to_math(t) == VarsToMath(t, italic_vars)

(***************************************************************************)
(* normalize_letter_subpoints                                              *)
(***************************************************************************)
\* str.splitlines()
RECURSIVE SplitLines(_)
SplitLines(t) ==
    IF t = <<>> THEN <<>>
    ELSE LET j == Find(t, "\n", 1) IN
         IF j = 0 THEN <<t>>
         ELSE <<SubSeq(t, 1, j - 1)>> \o SplitLines(From(t, j + 1))

\* "\n".join(lines)
RECURSIVE JoinLines(_)
JoinLines(lines) ==
    IF lines = <<>> THEN <<>>
    ELSE IF Len(lines) = 1 THEN Head(lines)
    ELSE Head(lines) \o <<"\n">> \o JoinLines(Tail(lines))

\* [A-Za-zА-Яа-яЁё]
ItemLetters == Letters

\* LETTER_ITEM_RE.match(first): ^(?P<label>[A-Za-zА-Яа-яЁё])\)\s*(?P<rest>.+)$
LetterItemMatches(first) ==
    /\ Len(first) >= 3
    /\ first[1] \in ItemLetters
    /\ first[2] = ")"
    /\ "\n" \notin {first[k] : k \in 3..Len(first)}

\* match.group("rest").strip()
LetterItemRest(first) == Strip(From(first, 3))

\* " " * n
RECURSIVE Spaces(_)
Spaces(n) == IF n <= 0 THEN <<>> ELSE <<" ">> \o Spaces(n - 1)

\* push(line)
Push(st, line) ==
    [st EXCEPT !.out = Append(@, line),
               !.prev_nonblank = IF IsBlank(line) THEN @ ELSE Some(line)]

RECURSIVE PushAll(_, _)
PushAll(st, lines) ==
    IF lines = <<>> THEN st ELSE PushAll(Push(st, Head(lines)), Tail(lines))

\* the first k >= i with k > n or lines[k] blank (nonblank = TRUE), or with
\* k > n or lines[k] not blank (nonblank = FALSE)
RECURSIVE SkipLines(_, _, _)
SkipLines(lines, k, nonblank) ==
    IF k <= Len(lines) /\ (IsBlank(lines[k]) # nonblank)
    THEN SkipLines(lines, k + 1, nonblank) ELSE k

\* the while True loop that collects the items: k, items and tail_blank_count
RECURSIVE CollectItems(_, _, _)
CollectItems(lines, k, items) ==
    LET afterBlanks == SkipLines(lines, k, FALSE)
        blanks_count == afterBlanks - k
    IN  IF afterBlanks > Len(lines) \/ ~LetterItemMatches(LStrip(lines[afterBlanks]))
        THEN [k |-> afterBlanks, items |-> items, tail_blank_count |-> blanks_count]
        ELSE LET e == SkipLines(lines, afterBlanks, TRUE) IN
             CollectItems(lines, e, Append(items, SubSeq(lines, afterBlanks, e - 1)))

\* the continuation lines of an item
RECURSIVE PushContinuation(_, _, _)
PushContinuation(st, indent, rest) ==
    IF rest = <<>> THEN st
    ELSE PushContinuation(Push(st, RStrip(indent \o Strip(Head(rest)))), indent, Tail(rest))

\* the for loop that renders the items
RECURSIVE RenderItems(_, _, _, _)
RenderItems(st, indent, items, index) ==
    IF index > Len(items) THEN st
    ELSE LET item == items[index]
             first == LStrip(item[1])
             s1 == IF LetterItemMatches(first)
                   THEN PushContinuation(
                            Push(st, RStrip(indent \o <<first[1], ")", " ">>
                                            \o LetterItemRest(first))),
                            indent, Tail(item))
                   ELSE PushAll(st, item)
             s2 == IF LetterItemMatches(first) /\ index < Len(items)
                   THEN Push(s1, <<>>) ELSE s1
         IN  RenderItems(s2, indent, items, index + 1)

\* one iteration of the outer while loop; st is [i, out, prev_nonblank]
SubpointsStep(lines, st) ==
    IF IsBlank(lines[st.i])
    THEN [Push(st, lines[st.i]) EXCEPT !.i = st.i + 1]
    ELSE LET e == SkipLines(lines, st.i, TRUE)
             paragraph == SubSeq(lines, st.i, e - 1)
         IN  IF ~LetterItemMatches(LStrip(paragraph[1]))
             THEN [PushAll(st, paragraph) EXCEPT !.i = e]
             ELSE LET prev_end == IF st.prev_nonblank = None THEN 0
                                  ELSE OrderedItemEnd(st.prev_nonblank[1])
                      indent == Spaces(prev_end)
                      c == CollectItems(lines, e, <<paragraph>>)
                      rendered == RenderItems(st, indent, c.items, 1)
                      closed == IF c.tail_blank_count # 0
                                THEN Push(rendered, <<>>) ELSE rendered
                  IN  [closed EXCEPT !.i = c.k]

RECURSIVE SubpointsLoop(_, _)
SubpointsLoop(lines, st) ==
    IF st.i <= Len(lines) THEN SubpointsLoop(lines, SubpointsStep(lines, st)) ELSE st

normalize_letter_subpoints(markdown) ==
    IF markdown = <<>> THEN markdown
    ELSE LET lines == SplitLines(markdown)
             st == SubpointsLoop(lines, [i |-> 1, out |-> <<>>, prev_nonblank |-> None])
             result == JoinLines(st.out)
         IN  IF EndsWith(markdown, <<"\n">>) /\ ~EndsWith(result, <<"\n">>)
             THEN result \o <<"\n">> ELSE result

(***************************************************************************)
(* _transform_outside_inline_code                                          *)
(***************************************************************************)
\* SINGLE_LEADING_SPACE_RE.sub("", t): (?m)^ (?![ \t])
RECURSIVE DropLeadingSpaceFrom(_, _)
DropLeadingSpaceFrom(t, i) ==
    CHOOSE r \in {IF j = 0 THEN From(t, i)
                  ELSE SubSeq(t, i, j - 1) \o DropLeadingSpaceFrom(t, j + 1) :
                  j \in {First({k \in i..Len(t) :
                                  /\ t[k] = " "
                                  /\ (k = 1 \/ t[k - 1] = "\n")
                                  /\ (k = Len(t) \/ t[k + 1] \notin {" ", "\t"})})}} : TRUE

DropSingleLeadingSpace(t) == DropLeadingSpaceFrom(t, 1)

\* INLINE_CODE_RE.match(t, i).end(), exclusive; 0: no match.
\* (?P<fence>BT+)(?P<code>[^BT]*?)(?P=fence), BT the backtick: the longest
\* fence that is closed
InlineCodeEnd(t, i) ==
    LET fenceEnd == RunEnd(t, {Backtick}, i)
        r == fenceEnd - i
        codeEnd == IF fenceEnd > Len(t) THEN fenceEnd ELSE Find(t, Backtick, fenceEnd)
        closeEnd == IF codeEnd = 0 THEN 0 ELSE RunEnd(t, {Backtick}, codeEnd)
    IN  IF r = 0 THEN 0
        ELSE IF codeEnd # 0 /\ closeEnd - codeEnd >= r THEN codeEnd + r
        ELSE IF r >= 2 THEN i + 2 * (r \div 2)
        ELSE 0

\* a part outside inline code gated on the task having any number at all
TransformPartAnyNumber(segment, tn) ==
    IF tn # None
    THEN convert_task5_numbers_to_math(convert_task5_vars_to_math(_merge_equals_in_text(segment)))
    ELSE _merge_equals_in_text(segment)

\* what the code does with a part outside inline code
TransformPart(segment, tn) ==
    CHOOSE r \in {IF tn = Some(5)
                  THEN CHOOSE n \in {convert_task5_numbers_to_math(v) :
                                       v \in {convert_task5_vars_to_math(m)}} : TRUE
                  ELSE m :
                  m \in {_merge_equals_in_text(segment)}} : TRUE

\* the loop over INLINE_CODE_RE.finditer(text) and the tail
\* where the next match of INLINE_CODE_RE from i starts, 0: no match
InlineCodeFrom(t, i) == First({j \in i..Len(t) : InlineCodeEnd(t, j) # 0})

RECURSIVE TransformParts(_, _, _, _)
TransformParts(t, tn, last, i) ==
    CHOOSE r \in {IF j = 0 THEN TransformPart(SubSeq(t, last, Len(t)), tn)
                  ELSE TransformPart(SubSeq(t, last, j - 1), tn)
                       \o SubSeq(t, j, InlineCodeEnd(t, j) - 1)
                       \o TransformParts(t, tn, InlineCodeEnd(t, j), InlineCodeEnd(t, j)) :
                  j \in {InlineCodeFrom(t, i)}} : TRUE

_transform_outside_inline_code(t, tn) ==
    IF t = <<>> THEN t
    ELSE CHOOSE r \in {TransformParts(lettered, tn, 1, 1) :
                         lettered \in {normalize_letter_subpoints(unspaced) :
                                          unspaced \in {DropSingleLeadingSpace(t)}}} : TRUE

(***************************************************************************)
(* normalize_math_in_markdown                                              *)
(***************************************************************************)
\* re.match(r"^(BT BT BT|~~~)", line): the marker, None when the line opens no fence
FenceMarker(line) ==
    IF StartsWith(line, <<Backtick, Backtick, Backtick>>) THEN Some(<<Backtick, Backtick, Backtick>>)
    ELSE IF StartsWith(line, <<"~", "~", "~">>) THEN Some(<<"~", "~", "~">>)
    ELSE None

\* flush_buffer() with out and buffer given: the new out
FlushBuffer(o, buffer, tn) ==
    IF buffer = <<>> THEN o
    ELSE Append(o, _transform_outside_inline_code(Join(buffer), tn))

NormalizeStart == [out |-> <<>>, buffer |-> <<>>, in_fence |-> FALSE, fence |-> None]

\* a loop body that lets any marker close the open fence
NormalizeStepAnyMarker(st, line, tn) ==
    LET marker == FenceMarker(line) IN
    IF marker # None /\ ~st.in_fence
    THEN [out |-> Append(FlushBuffer(st.out, st.buffer, tn), line), buffer |-> <<>>,
          in_fence |-> TRUE, fence |-> marker]
    ELSE IF marker # None
    THEN [st EXCEPT !.out = Append(@, line), !.in_fence = FALSE, !.fence = None]
    ELSE IF st.in_fence
    THEN [st EXCEPT !.out = Append(@, line)]
    ELSE [st EXCEPT !.buffer = Append(@, line)]

\* the body of the for loop for one line; st is [out, buffer, in_fence, fence]
NormalizeStep(st, line, tn) ==
    LET marker == FenceMarker(line) IN
    IF marker # None /\ ~st.in_fence
    THEN [out |-> Append(FlushBuffer(st.out, st.buffer, tn), line), buffer |-> <<>>,
          in_fence |-> TRUE, fence |-> marker]
    ELSE IF marker # None /\ marker = st.fence
    THEN [st EXCEPT !.out = Append(@, line), !.in_fence = FALSE, !.fence = None]
    ELSE IF st.in_fence
    THEN [st EXCEPT !.out = Append(@, line)]
    ELSE [st EXCEPT !.buffer = Append(@, line)]

\* the final flush_buffer() and the return
NormalizeFinish(st, tn) == Join(FlushBuffer(st.out, st.buffer, tn))

RECURSIVE NormalizeLoop(_, _, _)
NormalizeLoop(st, lines, tn) ==
    IF lines = <<>> THEN NormalizeFinish(st, tn)
    ELSE NormalizeLoop(NormalizeStep(st, Head(lines), tn), Tail(lines), tn)

normalize_math_in_markdown(markdown, tn) ==
    IF markdown = <<>> THEN markdown
    ELSE NormalizeLoop(NormalizeStart, SplitLinesKeepEnds(markdown), tn)

(***************************************************************************)
(* Inputs: the strings made of at most n tokens of a token set.            *)
(***************************************************************************)
Texts(tokens, n) == {Join(ts) : ts \in StringsUpTo(tokens, n)}

\* the values a set iteration order of TASK5_ITALIC_VARS can take
ItalicVarOrders == {<<"N", "R">>, <<"R", "N">>}

\* what the variables of the functions that are not running hold
IdleSplit == sp = SplitStart

IdleMerge == prev = None /\ merged = <<>>

IdleNormalize == md_lines = <<>> /\ nm = NormalizeStart

(***************************************************************************)
(* SpecSplit: convert_task5_numbers_to_math(text), with the loop of        *)
(* _split_by_math_spans taken one iteration at a time.                     *)
(***************************************************************************)
SplitAlphabet == {<<"$">>, <<"\\">>, <<"a">>, <<"1">>}

InitSplit ==
    /\ pc = "split"
    /\ text \in Texts(SplitAlphabet, MaxLen)
    /\ task_number = Some(5)
    /\ italic_vars = <<"N", "R">>
    /\ sp = SplitStart
    /\ IdleMerge
    /\ IdleNormalize
    /\ out = <<>>
    /\ IdleClean
    /\ IdleJob

\* if not text: return [("", False)]
SplitEmpty ==
    /\ pc = "split"
    /\ text = <<>>
    /\ sp' = [sp EXCEPT !.segments = <<[str |-> <<>>, math |-> FALSE]>>]
    /\ pc' = "split_done"
    /\ UNCHANGED <<jobVars, htmlVars, text, task_number, italic_vars, prev, merged, md_lines, nm, out>>

\* one iteration of while i < n
SplitIterate ==
    /\ pc = "split"
    /\ text # <<>>
    /\ sp.i <= Len(text)
    /\ sp' = SplitStep(text, sp)
    /\ UNCHANGED <<jobVars, htmlVars, pc, text, task_number, italic_vars, prev, merged, md_lines, nm, out>>

\* flush(mode != "text"); return segments
SplitReturn ==
    /\ pc = "split"
    /\ text # <<>>
    /\ sp.i > Len(text)
    /\ sp' = [sp EXCEPT !.segments = SplitFinish(sp), !.buf = <<>>]
    /\ pc' = "split_done"
    /\ UNCHANGED <<jobVars, htmlVars, text, task_number, italic_vars, prev, merged, md_lines, nm, out>>

\* the for loop of convert_task5_numbers_to_math over the segments
Task5Numbers ==
    /\ pc = "split_done"
    /\ out' = WrapSegments(sp.segments)
    /\ pc' = "done"
    /\ UNCHANGED <<jobVars, htmlVars, text, task_number, italic_vars, sp, prev, merged, md_lines, nm>>

NextSplit == SplitEmpty \/ SplitIterate \/ SplitReturn \/ Task5Numbers

SpecSplit == InitSplit /\ [][NextSplit]_vars

SegmentStrings(segments) == [k \in 1..Len(segments) |-> segments[k].str]

\* the text has well-balanced delimiters: the scan ends outside a formula
Balanced == sp.mode = "text"

\* C2: once _split_by_math_spans has returned for a text with well-balanced
\* delimiters, the strings of its segments, concatenated in order, are the text.
SplitRoundTrip ==
    (pc \in {"split_done", "done"} /\ Balanced) => Join(SegmentStrings(sp.segments)) = text

\* a balanced text cut into a plain segment, a formula and another segment
SplitRoundTripWitness ==
    /\ pc = "split_done"
    /\ Balanced
    /\ Len(sp.segments) >= 3
    /\ \E k \in 1..Len(sp.segments) : sp.segments[k].math
    /\ \E k \in 1..Len(sp.segments) : ~sp.segments[k].math

\* a dollar of a plain segment follows a backslash
PlainHasNoBareDollar(str) ==
    \A k \in 1..Len(str) : str[k] = "$" => (k > 1 /\ str[k - 1] = "\\")

\* a formula that was closed: $$ ... $$ or $ ... $, the close not escaped
ClosedMath(str) ==
    IF StartsWith(str, <<"$", "$">>)
    THEN /\ Len(str) >= 4
         /\ EndsWith(str, <<"$", "$">>)
         /\ (Len(str) > 4 => str[Len(str) - 2] # "\\")
    ELSE /\ Len(str) >= 2
         /\ str[1] = "$"
         /\ str[Len(str)] = "$"
         /\ str[Len(str) - 1] # "\\"

\* C3: every math segment starts with its opening delimiter and, when it was
\* terminated, ends with the closing delimiter of the same kind; no plain
\* segment holds a dollar that no backslash precedes.
SplitDelimiterIntegrity ==
    pc \in {"split_done", "done"} =>
        \A k \in 1..Len(sp.segments) :
            LET seg == sp.segments[k] IN
            IF seg.math
            THEN /\ seg.str[1] = "$"
                 /\ (k < Len(sp.segments) \/ Balanced) => ClosedMath(seg.str)
            ELSE PlainHasNoBareDollar(seg.str)

\* an escaped dollar in a plain segment next to a terminated formula
SplitDelimiterIntegrityWitness ==
    /\ pc = "split_done"
    /\ \E k \in 1..Len(sp.segments) :
          /\ ~sp.segments[k].math
          /\ "$" \in {sp.segments[k].str[j] : j \in 1..Len(sp.segments[k].str)}
    /\ \E k \in 1..Len(sp.segments) : sp.segments[k].math /\ ClosedMath(sp.segments[k].str)

\* the mode in which the scan of t ends
RECURSIVE SplitEndMode(_, _)
SplitEndMode(t, s) == IF s.i <= Len(t) THEN SplitEndMode(t, SplitStep(t, s)) ELSE s.mode

\* C4: when an opening delimiter has no close, everything from that delimiter
\* to the end of the text is the last segment, it is flagged math, what comes
\* before it is balanced, and numeric wrapping returns that segment unchanged
\* after the wrapping of what comes before.
UnbalancedFailSoft ==
    (pc = "done" /\ ~Balanced) =>
        LET n == Len(sp.segments)
            last == sp.segments[n]
            before == SubSeq(text, 1, Len(text) - Len(last.str))
        IN  /\ n >= 1
            /\ last.math
            /\ last.str[1] = "$"
            /\ before \o last.str = text
            /\ SplitEndMode(before, SplitStart) = "text"
            /\ out = (IF before = <<>> THEN <<>> ELSE convert_task5_numbers_to_math(before))
                     \o last.str

\* an unterminated formula that holds a number, after text that was wrapped
UnbalancedFailSoftWitness ==
    /\ pc = "done"
    /\ ~Balanced
    /\ Len(sp.segments) >= 2
    /\ "1" \in {sp.segments[Len(sp.segments)].str[j] :
                  j \in 1..Len(sp.segments[Len(sp.segments)].str)}
    /\ out # text

(***************************************************************************)
(* SpecWrap: convert_task5_numbers_to_math(text) on texts with raw HTML,   *)
(* link destinations, list markers and formulas.                           *)
(***************************************************************************)
WrapAlphabets ==
    { {<<"1">>, <<"a">>, <<"<">>, <<">">>, <<" ">>},
      {<<"1">>, <<"a">>, <<"]">>, <<"(">>, <<")">>},
      {<<"1">>, <<".">>, <<" ">>, <<"\n">>, <<"$">>} }

InitWrap ==
    /\ pc = "wrap"
    /\ text \in UNION {Texts(alphabet, MaxLen) : alphabet \in WrapAlphabets}
    /\ task_number = Some(5)
    /\ italic_vars = <<"N", "R">>
    /\ IdleSplit
    /\ IdleMerge
    /\ IdleNormalize
    /\ out = <<>>
    /\ IdleClean
    /\ IdleJob

ConvertNumbers ==
    /\ pc = "wrap"
    /\ out' = convert_task5_numbers_to_math(text)
    /\ pc' = "done"
    /\ UNCHANGED <<jobVars, htmlVars, text, task_number, italic_vars, sp, prev, merged, md_lines, nm>>

NextWrap == ConvertNumbers

SpecWrap == InitWrap /\ [][NextWrap]_vars

\* the wrapping the claim describes, for the part of a line after its marker:
\* a tag runs from < to the next >, a destination from ]( to its closing
\* parenthesis, and every other standalone integer is wrapped
RECURSIVE ClaimedWrapFrom(_, _)
ClaimedWrapFrom(t, i) ==
    IF i > Len(t) THEN <<>>
    ELSE IF t[i] = "<" /\ Find(t, ">", i + 1) # 0
    THEN SubSeq(t, i, Find(t, ">", i + 1)) \o ClaimedWrapFrom(t, Find(t, ">", i + 1) + 1)
    ELSE IF t[i] = "]" /\ i + 1 <= Len(t) /\ t[i + 1] = "("
    THEN LET j == DestinationEnd(t, i + 2, 1) IN
         SubSeq(t, i, j - 1) \o ClaimedWrapFrom(t, j)
    ELSE LET e == Task5NumberTokenEnd(t, i) IN
         IF e # 0
         THEN <<"$">> \o SubSeq(t, i, e - 1) \o <<"$">> \o ClaimedWrapFrom(t, e)
         ELSE <<t[i]>> \o ClaimedWrapFrom(t, i + 1)

\* a numbered-list marker is kept only where a line of the text starts
RECURSIVE ClaimedWrapLines(_, _)
ClaimedWrapLines(ls, atLineStart) ==
    IF ls = <<>> THEN <<>>
    ELSE LET m == IF atLineStart THEN OrderedItemEnd(Head(ls)) ELSE 0 IN
         SubSeq(Head(ls), 1, m) \o ClaimedWrapFrom(From(Head(ls), m + 1), 1)
         \o ClaimedWrapLines(Tail(ls), TRUE)

RECURSIVE ClaimedWrapSegments(_, _)
ClaimedWrapSegments(segments, k) ==
    IF k > Len(segments) THEN <<>>
    ELSE (IF segments[k].math THEN segments[k].str
          ELSE ClaimedWrapLines(SplitLinesKeepEnds(segments[k].str), k = 1))
         \o ClaimedWrapSegments(segments, k + 1)

\* C10: with category 5 every standalone integer token of a plain-text run is
\* wrapped in its own $...$, except the tokens between a < and the next >, the
\* tokens of a link destination ](...) and the list marker at the start of a
\* line; every other character is unchanged.
NumericWrappingCoverage ==
    pc = "done" => out = ClaimedWrapSegments(_split_by_math_spans(text), 1)

(***************************************************************************)
(* SpecMerge: the while loop of _merge_equals_in_text, one round per step. *)
(***************************************************************************)
MergeAlphabet == {<<"$", "a", "$">>, <<"=">>, <<"1">>, <<"$">>, <<" ">>}

InitMerge ==
    /\ pc = "merge"
    /\ text \in Texts(MergeAlphabet, MaxLen)
    /\ task_number = None
    /\ italic_vars = <<"N", "R">>
    /\ IdleSplit
    /\ IdleMerge
    /\ IdleNormalize
    /\ out = <<>>
    /\ IdleClean
    /\ IdleJob

\* prev = None; merged = text
MergeEnter ==
    /\ pc = "merge"
    /\ prev' = None
    /\ merged' = text
    /\ pc' = "merge_loop"
    /\ UNCHANGED <<jobVars, htmlVars, text, task_number, italic_vars, sp, md_lines, nm, out>>

\* one pass of the body of while prev != merged
MergeRound ==
    /\ pc = "merge_loop"
    /\ prev # Some(merged)
    /\ prev' = Some(merged)
    /\ merged' = MergeRoundOf(merged)
    /\ UNCHANGED <<jobVars, htmlVars, pc, text, task_number, italic_vars, sp, md_lines, nm, out>>

\* the loop condition fails: return merged
MergeReturn ==
    /\ pc = "merge_loop"
    /\ prev = Some(merged)
    /\ out' = merged
    /\ pc' = "done"
    /\ UNCHANGED <<jobVars, htmlVars, text, task_number, italic_vars, sp, prev, merged, md_lines, nm>>

NextMerge == MergeEnter \/ MergeRound \/ MergeReturn

SpecMerge == InitMerge /\ [][NextMerge]_vars

\* the interpreter keeps running the loop
SpecMergeFair == SpecMerge /\ WF_vars(NextMerge)

\* some pattern matches somewhere in t
HasCandidate(t) ==
    \E k \in 1..Len(MergePatterns) : \E i \in 1..Len(t) : MatchAt(MergePatterns[k], t, i).ok

\* C5: the loop of _merge_equals_in_text terminates, and its result holds no
\* occurrence of any of the three mergeable patterns: merging the result
\* again changes nothing.
MergeReachesFixedPoint ==
    /\ <>(pc = "done")
    /\ [](pc = "done" => ~HasCandidate(out) /\ _merge_equals_in_text(out) = out)

\* a text whose second round still merged something has been returned
MergeReachesFixedPointWitness ==
    /\ pc = "done"
    /\ MergeRoundOf(text) # text
    /\ MergeRoundOf(text) # out

(***************************************************************************)
(* SpecMergeAny: the same three patterns, one candidate match at a time in *)
(* any order, until no pattern matches anywhere.                           *)
(***************************************************************************)
InitMergeAny ==
    /\ pc = "any"
    /\ text \in Texts(MergeAlphabet, MaxLen)
    /\ task_number = None
    /\ italic_vars = <<"N", "R">>
    /\ IdleSplit
    /\ prev = None
    /\ merged = text
    /\ IdleNormalize
    /\ out = <<>>
    /\ IdleClean
    /\ IdleJob

\* the replacement of lines 333-344 applied to one match of one pattern
MergeCandidate ==
    /\ pc = "any"
    /\ \E k \in 1..Len(MergePatterns) : \E i \in 1..Len(merged) :
         \E m \in {MatchAt(MergePatterns[k], merged, i)} :
            /\ m.ok
            /\ merged' = Upto(merged, i) \o MergeReplacement(m) \o From(merged, m.end)
    /\ UNCHANGED <<jobVars, htmlVars, pc, text, task_number, italic_vars, sp, prev, md_lines, nm, out>>

\* no candidate is left
MergeAnyReturn ==
    /\ pc = "any"
    /\ ~HasCandidate(merged)
    /\ out' = merged
    /\ pc' = "done"
    /\ UNCHANGED <<jobVars, htmlVars, text, task_number, italic_vars, sp, prev, merged, md_lines, nm>>

NextMergeAny == MergeCandidate \/ MergeAnyReturn

SpecMergeAny == InitMergeAny /\ [][NextMergeAny]_vars

\* C6: merging the candidate matches of the three patterns one at a time, in
\* any order, until none is left gives the string _merge_equals_in_text
\* returns for the same input.
MergeConfluent == pc = "done" => out = _merge_equals_in_text(text)

(***************************************************************************)
(* SpecFence: normalize_math_in_markdown, one line of the text per step.   *)
(***************************************************************************)
FenceAlphabet ==
    { <<Backtick, Backtick, Backtick, "\n">>,
      <<"~", "~", "~", "\n">>,
      <<"1", "=", "$", "a", "$", " ", "2", "\n">> }

InitFence ==
    /\ pc = "normalize"
    /\ text \in Texts(FenceAlphabet, MaxLen)
    /\ task_number \in {Some(5), None}
    /\ italic_vars = <<"N", "R">>
    /\ IdleSplit
    /\ IdleMerge
    /\ IdleNormalize
    /\ out = <<>>
    /\ IdleClean
    /\ IdleJob

\* if not markdown: return markdown
NormalizeEmpty ==
    /\ pc = "normalize"
    /\ text = <<>>
    /\ out' = text
    /\ pc' = "done"
    /\ UNCHANGED <<jobVars, htmlVars, text, task_number, italic_vars, sp, prev, merged, md_lines, nm>>

\* lines = markdown.splitlines(keepends=True) and the initial locals
NormalizeEnter ==
    /\ pc = "normalize"
    /\ text # <<>>
    /\ md_lines' = SplitLinesKeepEnds(text)
    /\ nm' = NormalizeStart
    /\ pc' = "normalize_loop"
    /\ UNCHANGED <<jobVars, htmlVars, text, task_number, italic_vars, sp, prev, merged, out>>

\* one iteration of for line in lines
NormalizeLine ==
    /\ pc = "normalize_loop"
    /\ md_lines # <<>>
    /\ nm' = NormalizeStep(nm, Head(md_lines), task_number)
    /\ md_lines' = Tail(md_lines)
    /\ UNCHANGED <<jobVars, htmlVars, pc, text, task_number, italic_vars, sp, prev, merged, out>>

\* flush_buffer(); return "".join(out)
NormalizeReturn ==
    /\ pc = "normalize_loop"
    /\ md_lines = <<>>
    /\ out' = NormalizeFinish(nm, task_number)
    /\ pc' = "done"
    /\ UNCHANGED <<jobVars, htmlVars, text, task_number, italic_vars, sp, prev, merged, md_lines, nm>>

NextFence == NormalizeEmpty \/ NormalizeEnter \/ NormalizeLine \/ NormalizeReturn

SpecFence == InitFence /\ [][NextFence]_vars

\* the line that closes a fence opened with marker: the first line from k on
\* that starts with the same marker, the last line when there is none
RECURSIVE FenceClose(_, _, _)
FenceClose(ls, k, marker) ==
    IF k >= Len(ls) THEN Len(ls)
    ELSE IF FenceMarker(ls[k]) = marker THEN k
    ELSE FenceClose(ls, k + 1, marker)

\* a run of lines outside every fence, transformed as one text
TransformRegion(region, tn) ==
    IF region = <<>> THEN <<>> ELSE _transform_outside_inline_code(Join(region), tn)

\* the text with every fenced block (opening line to closing line) verbatim
\* and every run of lines between the blocks transformed
RECURSIVE FencePreserving(_, _, _, _)
FencePreserving(ls, k, region, tn) ==
    IF k > Len(ls) THEN TransformRegion(region, tn)
    ELSE IF FenceMarker(ls[k]) # None
    THEN LET c == FenceClose(ls, k + 1, FenceMarker(ls[k])) IN
         TransformRegion(region, tn) \o Join(SubSeq(ls, k, c))
         \o FencePreserving(ls, c + 1, <<>>, tn)
    ELSE FencePreserving(ls, k + 1, Append(region, ls[k]), tn)

\* C8: normalize_math_in_markdown emits every line from a fence-opening line
\* up to and including the line that closes it with the same marker (or up
\* to the end of the text) unchanged and in order; a line with the other
\* marker does not close the fence; only the lines outside the fences are
\* transformed. While a fence is open nothing waits in the buffer.
FenceAwareness ==
    /\ pc = "done" => out = FencePreserving(SplitLinesKeepEnds(text), 1, <<>>, task_number)
    /\ nm.in_fence => nm.buffer = <<>>

\* a returned text with a line of the other marker inside an open fence, a
\* transformable line after it, and a line that was transformed
FenceAwarenessWitness ==
    /\ pc = "done"
    /\ out # text
    /\ \E k \in 1..Len(SplitLinesKeepEnds(text)) - 2 :
         LET ls == SplitLinesKeepEnds(text) IN
         /\ \A j \in 1..(k - 1) : FenceMarker(ls[j]) = None
         /\ FenceMarker(ls[k]) # None
         /\ FenceMarker(ls[k + 1]) \notin {None, FenceMarker(ls[k])}
         /\ FenceMarker(ls[k + 2]) = None

(***************************************************************************)
(* SpecTransform: _transform_outside_inline_code, one statement per step;  *)
(* out holds the local text that the statements reassign.                  *)
(***************************************************************************)
TransformAlphabet ==
    { <<"1", ".", " ", "t", "\n", "\n">>,
      <<"a", ")", " ", "1", " ", "=", "\n", "\n">>,
      <<"$", "b", "$">>,
      <<"\n", "\n">>,
      <<"b", ")", " ", "y">> }

InitTransform ==
    /\ pc = "transform"
    /\ text \in Texts(TransformAlphabet, MaxLen)
    /\ task_number \in {Some(5), None}
    /\ italic_vars = <<"N", "R">>
    /\ IdleSplit
    /\ IdleMerge
    /\ IdleNormalize
    /\ out = <<>>
    /\ IdleClean
    /\ IdleJob

\* if not text: return text
TransformEmpty ==
    /\ pc = "transform"
    /\ text = <<>>
    /\ out' = text
    /\ pc' = "done"
    /\ UNCHANGED <<jobVars, htmlVars, text, task_number, italic_vars, sp, prev, merged, md_lines, nm>>

\* text = SINGLE_LEADING_SPACE_RE.sub("", text)
TransformLeadingSpace ==
    /\ pc = "transform"
    /\ text # <<>>
    /\ out' = DropSingleLeadingSpace(text)
    /\ pc' = "subpoints"
    /\ UNCHANGED <<jobVars, htmlVars, text, task_number, italic_vars, sp, prev, merged, md_lines, nm>>

\* text = normalize_letter_subpoints(text)
TransformSubpoints ==
    /\ pc = "subpoints"
    /\ out' = normalize_letter_subpoints(out)
    /\ pc' = "parts"
    /\ UNCHANGED <<jobVars, htmlVars, text, task_number, italic_vars, sp, prev, merged, md_lines, nm>>

\* the loop over the inline code spans: merge, then for category 5 the
\* variables and the numbers, on every part outside them
TransformOutsideCode ==
    /\ pc = "parts"
    /\ out' = TransformParts(out, task_number, 1, 1)
    /\ pc' = "done"
    /\ UNCHANGED <<jobVars, htmlVars, text, task_number, italic_vars, sp, prev, merged, md_lines, nm>>

NextTransform ==
    TransformEmpty \/ TransformLeadingSpace \/ TransformSubpoints \/ TransformOutsideCode

SpecTransform == InitTransform /\ [][NextTransform]_vars

\* one of the claim's stages on a part outside inline code
ClaimedPart(segment, stage, tn) ==
    IF stage = "merge" THEN _merge_equals_in_text(segment)
    ELSE IF tn = Some(5)
    THEN convert_task5_numbers_to_math(convert_task5_vars_to_math(segment))
    ELSE segment

\* one stage applied to every part of t outside the inline code spans
RECURSIVE ClaimedParts(_, _, _, _, _)
ClaimedParts(t, stage, tn, last, i) ==
    CHOOSE r \in {IF j = 0 THEN ClaimedPart(SubSeq(t, last, Len(t)), stage, tn)
                  ELSE ClaimedPart(SubSeq(t, last, j - 1), stage, tn)
                       \o SubSeq(t, j, InlineCodeEnd(t, j) - 1)
                       \o ClaimedParts(t, stage, tn, InlineCodeEnd(t, j), InlineCodeEnd(t, j)) :
                  j \in {InlineCodeFrom(t, i)}} : TRUE

\* the order the claim states: equality merge, then re-paragraphing of the
\* lettered sub-items, then numeric wrapping
ClaimedOrder(t, tn) ==
    IF t = <<>> THEN t
    ELSE LET merged_first == ClaimedParts(DropSingleLeadingSpace(t), "merge", tn, 1, 1)
         IN  ClaimedParts(normalize_letter_subpoints(merged_first), "wrap", tn, 1, 1)

\* C9: on a fence-excluded region of the rendered Markdown the transforms are
\* applied in the order equality merge, lettered sub-item re-paragraphing,
\* numeric wrapping (after convert_sub_sup_to_tex and html_to_markdown have
\* produced the Markdown).
TransformOrder == pc = "done" => out = ClaimedOrder(text, task_number)

(***************************************************************************)
(* transform_tasks.py: HTML fragments.  A node is a record: a text node    *)
(* has the tag "#text" and its string in s, an element has its name, its   *)
(* attributes (a set of <<name, value>>) and its children.  A string is a  *)
(* sequence of tokens: a whitespace character or a word.                   *)
(***************************************************************************)
\* U+00A0, the no-break space
NBSP == "NBSP"

\* U+2013, the en dash
Dash == "DASH"

TextNode(s) == [tag |-> "#text", attrs |-> {}, kids |-> <<>>, s |-> s]

Element(tag, attrs, kids) == [tag |-> tag, attrs |-> attrs, kids |-> kids, s |-> <<>>]

\* isinstance(node, NavigableString)
IsText(n) == n.tag = "#text"

\* isinstance(node, Tag)
IsTag(n) == n.tag # "#text"

LEAF_NAMES == {"mo", "mi", "mn", "mtext", "msym", "m:mo", "m:mi", "m:mn", "m:mtext", "m:msym"}

DROP_ATTRS ==
    {"class", "style", "bgcolor", "width", "height", "align", "valign", "lang",
     "svwidth", "border", "cellpadding", "cellspacing", "nowrap"}

EMPTY_REMOVABLE_TAGS == {"p", "div", "span", "font", "b", "i", "strong", "em", "u", "sup", "sub"}

UNWRAP_TAGS == {"span", "font", "o:p"}

ATTACHMENT_LINK_EXTENSIONS == {".zip", ".rar", ".7z"}

\* the elements BeautifulSoup writes as <name/> and closes as soon as they open
VoidTags == {"br", "img"}

\* str.strip() of Python also strips U+00A0
StripChars == Whitespace \cup {NBSP}

RECURSIVE LStripHtml(_)
LStripHtml(s) == IF s # <<>> /\ Head(s) \in StripChars THEN LStripHtml(Tail(s)) ELSE s

RECURSIVE RStripHtml(_)
RStripHtml(s) ==
    IF s # <<>> /\ s[Len(s)] \in StripChars THEN RStripHtml(SubSeq(s, 1, Len(s) - 1)) ELSE s

\* s.strip()
StripHtml(s) == LStripHtml(RStripHtml(s))

\* tag.get(name): the value, None when the attribute is missing
GetAttr(n, name) ==
    IF \E a \in n.attrs : a[1] = name
    THEN Some((CHOOSE a \in n.attrs : a[1] = name)[2])
    ELSE None

\* tag.find(names) on each of the nodes: is there a descendant element with
\* one of the names
RECURSIVE FindTag(_, _)
FindTag(nodes, names) ==
    \E k \in 1..Len(nodes) :
        /\ IsTag(nodes[k])
        /\ nodes[k].tag \in names \/ FindTag(nodes[k].kids, names)

\* tag.find(True): is there any descendant element
FindAnyTag(nodes) == \E k \in 1..Len(nodes) : IsTag(nodes[k])

\* tag.find("a", href=True)
RECURSIVE FindLink(_)
FindLink(nodes) ==
    \E k \in 1..Len(nodes) :
        /\ IsTag(nodes[k])
        /\ (nodes[k].tag = "a" /\ GetAttr(nodes[k], "href") # None) \/ FindLink(nodes[k].kids)

\* the strings of tag.stripped_strings: every text below the nodes, in
\* document order, stripped, the empty ones left out
RECURSIVE StrippedStrings(_)
StrippedStrings(nodes) ==
    IF nodes = <<>> THEN <<>>
    ELSE LET n == Head(nodes) IN
         (IF IsText(n)
          THEN (IF StripHtml(n.s) = <<>> THEN <<>> ELSE <<StripHtml(n.s)>>)
          ELSE StrippedStrings(n.kids))
         \o StrippedStrings(Tail(nodes))

\* separator.join(strings)
RECURSIVE JoinWith(_, _)
JoinWith(strings, separator) ==
    IF strings = <<>> THEN <<>>
    ELSE IF Len(strings) = 1 THEN strings[1]
    ELSE Head(strings) \o separator \o JoinWith(Tail(strings), separator)

\* tag.get_text(strip=True) of an element with these children
GetTextStripped(nodes) == Join(StrippedStrings(nodes))

\* tag.get_text(" ", strip=True)
GetTextSpaced(nodes) == JoinWith(StrippedStrings(nodes), <<" ">>)

\* re.sub(r"\s+", " ", s).strip()
RECURSIVE CollapseSpacesFrom(_, _)
CollapseSpacesFrom(s, i) ==
    IF i > Len(s) THEN <<>>
    ELSE IF s[i] \in StripChars
    THEN <<" ">> \o CollapseSpacesFrom(s, RunEnd(s, StripChars, i))
    ELSE <<s[i]>> \o CollapseSpacesFrom(s, i + 1)

CollapseSpaces(s) == StripHtml(CollapseSpacesFrom(s, 1))

(***************************************************************************)
(* An HTML string is a sequence of tokens: a character of text, a start    *)
(* tag, an end tag, a <name/> tag or a processing instruction.             *)
(***************************************************************************)
CharToken(c) == [k |-> "char", tag |-> "", attrs |-> {}, c |-> c]

StartTag(tag, attrs) == [k |-> "start", tag |-> tag, attrs |-> attrs, c |-> ""]

EndTag(tag) == [k |-> "end", tag |-> tag, attrs |-> {}, c |-> ""]

StartEndTag(tag, attrs) == [k |-> "startend", tag |-> tag, attrs |-> attrs, c |-> ""]

\* <?import namespace = m ...>
ImportPI == [k |-> "pi", tag |-> "import", attrs |-> {}, c |-> ""]

\* the characters lo..hi of a string as tokens (the range is halved, which
\* keeps the evaluation shallow)
RECURSIVE CharTokensOf(_, _, _)
CharTokensOf(s, lo, hi) ==
    IF lo > hi THEN <<>>
    ELSE IF lo = hi THEN <<CharToken(s[lo])>>
    ELSE CharTokensOf(s, lo, (lo + hi) \div 2) \o CharTokensOf(s, (lo + hi) \div 2 + 1, hi)

CharTokens(s) == CharTokensOf(s, 1, Len(s))

\* "".join(str(child) for child in nodes): the characters of adjacent text
\* nodes run together
RECURSIVE Serialize(_)
Serialize(nodes) ==
    IF nodes = <<>> THEN <<>>
    ELSE LET n == Head(nodes) IN
         (IF IsText(n) THEN CharTokens(n.s)
          ELSE IF n.tag \in VoidTags THEN <<StartEndTag(n.tag, n.attrs)>>
          ELSE <<StartTag(n.tag, n.attrs)>> \o Serialize(n.kids) \o <<EndTag(n.tag)>>)
         \o Serialize(Tail(nodes))

\* re.sub(r"<\?import[^>]*?>", "", html, flags=re.IGNORECASE)
strip_import_pis(html) == SelectSeq(html, LAMBDA token : token # ImportPI)

\* the node is added to the element being built: a character extends the
\* text node before it
AppendNode(kids, n) ==
    IF IsText(n) /\ kids # <<>> /\ IsText(kids[Len(kids)])
    THEN [kids EXCEPT ![Len(kids)].s = @ \o n.s]
    ELSE Append(kids, n)

\* the innermost open element is closed: it becomes a child of the one below
PopTag(stack) ==
    LET below == stack[Len(stack) - 1] IN
    Append(SubSeq(stack, 1, Len(stack) - 2),
           [below EXCEPT !.kids = Append(@, stack[Len(stack)])])

\* BeautifulSoup._popToTag(name): the open elements are closed down to the
\* most recent one of that name
RECURSIVE PopToTag(_, _)
PopToTag(stack, name) ==
    IF stack[Len(stack)].tag = name THEN PopTag(stack) ELSE PopToTag(PopTag(stack), name)

\* one parser event of BeautifulSoup(..., "html.parser") on the stack of
\* open elements; stack[1] is <root>.  An end tag that closes no open
\* element is ignored.
ParseToken(stack, token) ==
    IF token.k = "char"
    THEN [stack EXCEPT ![Len(stack)].kids = AppendNode(@, TextNode(<<token.c>>))]
    ELSE IF token.k = "start" /\ token.tag \notin VoidTags
    THEN Append(stack, Element(token.tag, token.attrs, <<>>))
    ELSE IF token.k \in {"start", "startend"}
    THEN [stack EXCEPT ![Len(stack)].kids = Append(@, Element(token.tag, token.attrs, <<>>))]
    ELSE IF token.k = "end" /\ \E d \in 2..Len(stack) : stack[d].tag = token.tag
    THEN PopToTag(stack, token.tag)
    ELSE stack

\* the events of the tokens lo..hi in order (the range is halved, which keeps
\* the evaluation shallow)
RECURSIVE ParseFrom(_, _, _, _)
ParseFrom(html, lo, hi, stack) ==
    IF lo > hi THEN stack
    ELSE IF lo = hi THEN ParseToken(stack, html[lo])
    ELSE CHOOSE r \in {ParseFrom(html, (lo + hi) \div 2 + 1, hi, half) :
                        half \in {ParseFrom(html, lo, (lo + hi) \div 2, stack)}} : TRUE

\* the end of the input closes the elements that are still open
RECURSIVE CloseAll(_)
CloseAll(stack) == IF Len(stack) = 1 THEN stack[1].kids ELSE CloseAll(PopTag(stack))

\* BeautifulSoup(f"<root>{html}</root>", "html.parser").find("root").contents
ParseFragment(html) ==
    CloseAll(ParseFrom(html, 1, Len(html), <<Element("root", {}, <<>>)>>))

(***************************************************************************)
(* clean_html, pass by pass.  Every loop runs over a list of the elements  *)
(* taken in document order before the loop starts, and decides about an    *)
(* element before it comes to the elements inside it.                      *)
(***************************************************************************)
\* lines 233-245: decorative containers are unwrapped, <br> becomes a line
\* break, the attributes of DROP_ATTRS are deleted
RECURSIVE CleanTag(_)
RECURSIVE CleanTags(_)
CleanTags(nodes) ==
    IF nodes = <<>> THEN <<>> ELSE CleanTag(Head(nodes)) \o CleanTags(Tail(nodes))

CleanTag(n) ==
    IF IsText(n) THEN <<n>>
    ELSE IF n.tag \in UNWRAP_TAGS \/ (n.tag = "div" /\ ~FindTag(n.kids, {"table"}))
    THEN CleanTags(n.kids)
    ELSE IF n.tag = "br" THEN <<TextNode(<<"\n">>)>>
    ELSE <<[n EXCEPT !.attrs = {a \in @ : a[1] \notin DROP_ATTRS}, !.kids = CleanTags(@)]>>

\* lines 248-250: U+00A0 becomes a space in every text node
RECURSIVE NormalizeNbsp(_)
NormalizeNbsp(nodes) ==
    IF nodes = <<>> THEN <<>>
    ELSE LET n == Head(nodes) IN
         <<IF IsText(n) THEN [n EXCEPT !.s = Replace(@, <<NBSP>>, <<" ">>)]
           ELSE [n EXCEPT !.kids = NormalizeNbsp(@)]>>
         \o NormalizeNbsp(Tail(nodes))

\* the run of tokens other than the quote that starts at i: its end
RECURSIVE UnquotedEnd(_, _)
UnquotedEnd(t, i) == IF i <= Len(t) /\ t[i] # "'" THEN UnquotedEnd(t, i + 1) ELSE i

\* does t continue at i with the tokens of p
Continues(t, i, p) == i + Len(p) - 1 <= Len(t) /\ SubSeq(t, i, i + Len(p) - 1) = p

\* re.findall(r"ShowPictureQ2WH\('([^']*)','([^']*)'", content): the pairs
RECURSIVE ShowPictureQ2WHCalls(_, _)
ShowPictureQ2WHCalls(content, i) ==
    IF i > Len(content) THEN <<>>
    ELSE LET a == i + 3
             ae == UnquotedEnd(content, a)
             b == ae + 3
             be == UnquotedEnd(content, b)
         IN  IF /\ Continues(content, i, <<"ShowPictureQ2WH", "(", "'">>)
                /\ Continues(content, ae, <<"'", ",", "'">>)
                /\ be <= Len(content)
             THEN <<[zip_name |-> SubSeq(content, a, ae - 1),
                     img_name |-> SubSeq(content, b, be - 1)]>>
                  \o ShowPictureQ2WHCalls(content, be + 1)
             ELSE ShowPictureQ2WHCalls(content, i + 1)

\* re.findall(r"ShowPictureQ\('([^']+)'", content): the file names
RECURSIVE ShowPictureQCalls(_, _)
ShowPictureQCalls(content, i) ==
    IF i > Len(content) THEN <<>>
    ELSE LET a == i + 3
             ae == UnquotedEnd(content, a)
         IN  IF /\ Continues(content, i, <<"ShowPictureQ", "(", "'">>)
                /\ ae > a
                /\ ae <= Len(content)
             THEN <<SubSeq(content, a, ae - 1)>> \o ShowPictureQCalls(content, ae + 1)
             ELSE ShowPictureQCalls(content, i + 1)

\* soup.new_tag("img", src=f"assets/{name}", alt="")
AssetImg(name) == Element("img", {<<"src", <<"assets/">> \o name>>, <<"alt", <<>>>>}, <<>>)

\* soup.new_tag("a", href=f"assets/{name}") with link.string = name
AssetLink(name) == Element("a", {<<"href", <<"assets/">> \o name>>}, <<TextNode(name)>>)

\* tag.strings: every text below the nodes, in document order
RECURSIVE Strings(_)
Strings(nodes) ==
    IF nodes = <<>> THEN <<>>
    ELSE (IF IsText(Head(nodes)) THEN <<Head(nodes).s>> ELSE Strings(Head(nodes).kids))
         \o Strings(Tail(nodes))

\* script.string or "".join(script.strings): script.string is the only
\* string below the script when there is exactly one, None otherwise
ScriptContent(script) == Join(Strings(script.kids))

\* lines 258-267: what the ShowPictureQ2WH calls insert before the script
RECURSIVE Q2Nodes(_)
Q2Nodes(calls) ==
    IF calls = <<>> THEN <<>>
    ELSE (IF Head(calls).zip_name # <<>> THEN <<AssetLink(Head(calls).zip_name)>> ELSE <<>>)
         \o (IF Head(calls).img_name # <<>> THEN <<AssetImg(Head(calls).img_name)>> ELSE <<>>)
         \o Q2Nodes(Tail(calls))

\* a loop over the ShowPictureQ calls that inserts nothing
QNodesNone(names) == <<>>

\* lines 269-272: what the ShowPictureQ calls insert before the script
RECURSIVE QNodes(_)
QNodes(names) ==
    IF names = <<>> THEN <<>> ELSE <<AssetImg(Head(names))>> \o QNodes(Tail(names))

\* lines 253-272: every script is replaced by the links and images of its calls
RECURSIVE ReplaceScripts(_)
ReplaceScripts(nodes) ==
    IF nodes = <<>> THEN <<>>
    ELSE LET n == Head(nodes) IN
         (IF IsText(n) THEN <<n>>
          ELSE IF n.tag = "script"
          THEN Q2Nodes(ShowPictureQ2WHCalls(ScriptContent(n), 1))
               \o QNodes(ShowPictureQCalls(ScriptContent(n), 1))
          ELSE <<[n EXCEPT !.kids = ReplaceScripts(@)]>>)
         \o ReplaceScripts(Tail(nodes))

\* root.find_all(names): the elements with one of the names, in document order
RECURSIVE FindAll(_, _)
FindAll(nodes, names) ==
    IF nodes = <<>> THEN <<>>
    ELSE LET n == Head(nodes) IN
         (IF IsText(n) THEN <<>>
          ELSE (IF n.tag \in names THEN <<n>> ELSE <<>>) \o FindAll(n.kids, names))
         \o FindAll(Tail(nodes), names)

\* single_leaf_text(math_tag): the text of the only leaf of LEAF_NAMES that
\* has text, None otherwise
RECURSIVE LeafTexts(_)
LeafTexts(nodes) ==
    IF nodes = <<>> THEN <<>>
    ELSE LET n == Head(nodes) IN
         (IF IsText(n) THEN <<>>
          ELSE IF FindAnyTag(n.kids) THEN LeafTexts(n.kids)
          ELSE IF n.tag \in LEAF_NAMES /\ GetTextStripped(n.kids) # <<>>
          THEN <<GetTextStripped(n.kids)>>
          ELSE <<>>)
         \o LeafTexts(Tail(nodes))

single_leaf_text(math_tag) ==
    IF Len(LeafTexts(math_tag.kids)) = 1 THEN Some(LeafTexts(math_tag.kids)[1]) ELSE None

\* the name without the prefix m:
Unprefixed(name) ==
    CASE name = "m:math" -> "math"
      [] name = "m:mo" -> "mo"
      [] name = "m:mi" -> "mi"
      [] name = "m:mn" -> "mn"
      [] name = "m:mtext" -> "mtext"
      [] name = "m:msym" -> "msym"
      [] name = "m:mrow" -> "mrow"
      [] OTHER -> name

\* strip_prefixes(tag) on each of the nodes
RECURSIVE strip_prefixes(_)
strip_prefixes(nodes) ==
    IF nodes = <<>> THEN <<>>
    ELSE LET n == Head(nodes) IN
         <<IF IsText(n) THEN n
           ELSE [n EXCEPT !.tag = Unprefixed(@), !.kids = strip_prefixes(@)]>>
         \o strip_prefixes(Tail(nodes))

MathNames == {"math", "m:math"}

\* the formula is the en dash alone
IsMathDash(math_tag) == single_leaf_text(math_tag) = Some(<<Dash>>)

\* lines 275-282: a formula that is only an en dash becomes the character,
\* any other formula loses the prefix m:
RECURSIVE ProcessMath(_)
ProcessMath(nodes) ==
    IF nodes = <<>> THEN <<>>
    ELSE LET n == Head(nodes) IN
         <<IF IsText(n) THEN n
           ELSE IF n.tag \in MathNames /\ IsMathDash(n) THEN TextNode(<<Dash>>)
           ELSE IF n.tag \in MathNames
           THEN [n EXCEPT !.tag = Unprefixed(@), !.kids = ProcessMath(strip_prefixes(@))]
           ELSE [n EXCEPT !.kids = ProcessMath(@)]>>
         \o ProcessMath(Tail(nodes))

\* a_tag.get("href") is falsy
NoHref(a_tag) == GetAttr(a_tag, "href") \in {None, Some(<<>>)}

\* not a_tag.get_text(strip=True) and not a_tag.find(True)
IsEmptyAnchor(a_tag) == GetTextStripped(a_tag.kids) = <<>> /\ ~FindAnyTag(a_tag.kids)

\* lines 285-293: an anchor without href is removed when it is empty and
\* unwrapped otherwise
RECURSIVE StripAnchors(_)
StripAnchors(nodes) ==
    IF nodes = <<>> THEN <<>>
    ELSE LET n == Head(nodes) IN
         (IF IsText(n) THEN <<n>>
          ELSE IF n.tag = "a" /\ NoHref(n)
          THEN (IF IsEmptyAnchor(n) THEN <<>> ELSE StripAnchors(n.kids))
          ELSE <<[n EXCEPT !.kids = StripAnchors(@)]>>)
         \o StripAnchors(Tail(nodes))

\* the words of ATTACHMENTS_NOTICE_RE, in Latin letters
NoticeHead == <<"Zadanie", "vypolnyaetsya", "s", "ispolzovaniem", "prilagaemyh">>

NoticeOptional == <<"k", "zadaniyu">>

NoticeLast == "fajlov"

\* word\s+word\s+...: the index after the last word, 0: no match at i
RECURSIVE WordsEnd(_, _, _)
WordsEnd(t, i, words) ==
    IF i > Len(t) \/ t[i] # Head(words) THEN 0
    ELSE IF Len(words) = 1 THEN i + 1
    ELSE LET j == RunEnd(t, StripChars, i + 1) IN
         IF j = i + 1 THEN 0 ELSE WordsEnd(t, j, Tail(words))

\* \s+word at i: the index after the word, 0: no match
SpacedWordEnd(t, i, words) ==
    IF i = 0 \/ RunEnd(t, StripChars, i) = i THEN 0
    ELSE WordsEnd(t, RunEnd(t, StripChars, i), words)

\* ATTACHMENTS_NOTICE_RE.match(t, i): the index after the match, 0: no match.
\* The optional group is tried first.
NoticeEnd(t, i) ==
    LET head == WordsEnd(t, i, NoticeHead)
        with == SpacedWordEnd(t, SpacedWordEnd(t, head, NoticeOptional), <<NoticeLast>>)
        without == SpacedWordEnd(t, head, <<NoticeLast>>)
        DotEnd(e) ==
            IF e # 0 /\ RunEnd(t, StripChars, e) <= Len(t) /\ t[RunEnd(t, StripChars, e)] = "."
            THEN RunEnd(t, StripChars, e) + 1 ELSE 0
    IN  IF DotEnd(with) # 0 THEN DotEnd(with) ELSE DotEnd(without)

\* ATTACHMENTS_NOTICE_RE.search(t)
NoticeFound(t) == \E i \in 1..Len(t) : NoticeEnd(t, i) # 0

\* ATTACHMENTS_NOTICE_RE.sub("", t)
RECURSIVE NoticeRemoved(_, _)
NoticeRemoved(t, i) ==
    IF i > Len(t) THEN <<>>
    ELSE IF NoticeEnd(t, i) # 0 THEN NoticeRemoved(t, NoticeEnd(t, i))
    ELSE <<t[i]>> \o NoticeRemoved(t, i + 1)

\* the row holds the notice, with or without other text
IsNoticeRowAnyText(tr) == NoticeFound(GetTextSpaced(tr.kids))

\* lines 136-143: the row holds the notice and nothing else
IsNoticeRow(tr) ==
    /\ NoticeFound(GetTextSpaced(tr.kids))
    /\ CollapseSpaces(NoticeRemoved(GetTextSpaced(tr.kids), 1)) = <<>>

\* _strip_attachments_notice: the rows that are only the notice are removed
RECURSIVE StripNoticeRows(_)
StripNoticeRows(nodes) ==
    IF nodes = <<>> THEN <<>>
    ELSE LET n == Head(nodes) IN
         (IF IsText(n) THEN <<n>>
          ELSE IF n.tag = "tr" /\ IsNoticeRow(n) THEN <<>>
          ELSE <<[n EXCEPT !.kids = StripNoticeRows(@)]>>)
         \o StripNoticeRows(Tail(nodes))

\* the rows the loop of _strip_attachments_notice removes: a row inside a
\* removed row is gone when the loop comes to it
RECURSIVE NoticeRows(_)
NoticeRows(nodes) ==
    IF nodes = <<>> THEN <<>>
    ELSE LET n == Head(nodes) IN
         (IF IsText(n) THEN <<>>
          ELSE IF n.tag = "tr" /\ IsNoticeRow(n) THEN <<n>>
          ELSE NoticeRows(n.kids))
         \o NoticeRows(Tail(nodes))

\* tr.find_all("a", href=True)
RECURSIVE LinksIn(_)
LinksIn(nodes) ==
    IF nodes = <<>> THEN <<>>
    ELSE LET n == Head(nodes) IN
         (IF IsText(n) THEN <<>>
          ELSE (IF n.tag = "a" /\ GetAttr(n, "href") # None THEN <<n>> ELSE <<>>)
               \o LinksIn(n.kids))
         \o LinksIn(Tail(nodes))

\* lines 170-172: href, stripped and in lower case, starts with assets/ and
\* ends with the extension of an archive
IsAttachmentLink(a_tag) ==
    LET href == StripHtml(GetAttr(a_tag, "href")[1]) IN
    /\ Len(href) >= 2
    /\ href[1] = "assets/"
    /\ href[Len(href)] \in ATTACHMENT_LINK_EXTENSIONS

\* lines 180-184: the text of the row without the texts of its links
RECURSIVE WithoutLinkTexts(_, _)
WithoutLinkTexts(t, links) ==
    IF links = <<>> THEN t
    ELSE LET link_text == GetTextSpaced(Head(links).kids) IN
         WithoutLinkTexts(IF link_text # <<>> THEN Replace(t, link_text, <<>>) ELSE t,
                          Tail(links))

\* lines 163-187: the row has links, all of them to attachments, and no
\* text of its own
IsAttachmentLinkRow(tr) ==
    LET a_tags == LinksIn(tr.kids) IN
    /\ a_tags # <<>>
    /\ \A k \in 1..Len(a_tags) : IsAttachmentLink(a_tags[k])
    /\ CollapseSpaces(WithoutLinkTexts(GetTextSpaced(tr.kids), a_tags)) = <<>>

\* _strip_attachment_link_rows
RECURSIVE StripLinkRows(_)
StripLinkRows(nodes) ==
    IF nodes = <<>> THEN <<>>
    ELSE LET n == Head(nodes) IN
         (IF IsText(n) THEN <<n>>
          ELSE IF n.tag = "tr" /\ IsAttachmentLinkRow(n) THEN <<>>
          ELSE <<[n EXCEPT !.kids = StripLinkRows(@)]>>)
         \o StripLinkRows(Tail(nodes))

\* the rows the loop of _strip_attachment_link_rows removes
RECURSIVE LinkRows(_)
LinkRows(nodes) ==
    IF nodes = <<>> THEN <<>>
    ELSE LET n == Head(nodes) IN
         (IF IsText(n) THEN <<>>
          ELSE IF n.tag = "tr" /\ IsAttachmentLinkRow(n) THEN <<n>>
          ELSE LinkRows(n.kids))
         \o LinkRows(Tail(nodes))

\* a test that finds no element empty
IsEmptyRemovableNever(tag) == FALSE

\* lines 300-303: the element is in EMPTY_REMOVABLE_TAGS, has no element
\* inside and no text
IsEmptyRemovable(tag) ==
    /\ tag.tag \in EMPTY_REMOVABLE_TAGS
    /\ ~FindAnyTag(tag.kids)
    /\ GetTextStripped(tag.kids) = <<>>

\* lines 299-305: one pass in document order; an element that holds an
\* element is skipped, whatever becomes of that element later in the pass
RECURSIVE PruneEmpty(_)
PruneEmpty(nodes) ==
    IF nodes = <<>> THEN <<>>
    ELSE LET n == Head(nodes) IN
         (IF IsText(n) THEN <<n>>
          ELSE IF IsEmptyRemovable(n) THEN <<>>
          ELSE <<[n EXCEPT !.kids = PruneEmpty(@)]>>)
         \o PruneEmpty(Tail(nodes))

\* lines 199-202: the table has no text, image, link or formula
IsEmptyTable(table) ==
    /\ GetTextSpaced(table.kids) = <<>>
    /\ ~FindTag(table.kids, {"img", "math"})
    /\ ~FindLink(table.kids)

\* _remove_empty_tables
RECURSIVE RemoveEmptyTables(_)
RemoveEmptyTables(nodes) ==
    IF nodes = <<>> THEN <<>>
    ELSE LET n == Head(nodes) IN
         (IF IsText(n) THEN <<n>>
          ELSE IF n.tag = "table" /\ IsEmptyTable(n) THEN <<>>
          ELSE <<[n EXCEPT !.kids = RemoveEmptyTables(@)]>>)
         \o RemoveEmptyTables(Tail(nodes))

\* the tables the loop of _remove_empty_tables decomposes: a table inside an
\* empty table is empty as well and is counted when the loop comes to it
EmptyTables(nodes) ==
    SelectSeq(FindAll(nodes, {"table"}), LAMBDA table : IsEmptyTable(table))

\* line 311: the children that are not whitespace-only strings, by index
WrapperChildren(contents) ==
    {k \in 1..Len(contents) : ~(IsText(contents[k]) /\ StripHtml(contents[k].s) = <<>>)}

\* a wrapper test that takes every child into account, whitespace too
WrapperAmongAllChildren(contents) ==
    /\ Len(contents) = 1
    /\ IsTag(contents[1])
    /\ contents[1].tag \in {"td", "tr", "tbody"}

\* unwrap_single_wrapper(node), its result: the only child that is not
\* whitespace is a td, tr or tbody element
unwrap_single_wrapper(contents) ==
    /\ Cardinality(WrapperChildren(contents)) = 1
    /\ \A k \in WrapperChildren(contents) :
         IsTag(contents[k]) /\ contents[k].tag \in {"td", "tr", "tbody"}

\* child.unwrap(): the children of the wrapper take its place
Unwrapped(contents) ==
    LET k == CHOOSE k \in WrapperChildren(contents) : TRUE IN
    SubSeq(contents, 1, k - 1) \o contents[k].kids \o SubSeq(contents, k + 1, Len(contents))

\* stats[name] += n
Counted(st, name, n) == [st EXCEPT ![name] = @ + n]

\* the calls of all the scripts, in document order
RECURSIVE Q2CallsOf(_)
Q2CallsOf(scripts) ==
    IF scripts = <<>> THEN <<>>
    ELSE ShowPictureQ2WHCalls(ScriptContent(Head(scripts)), 1) \o Q2CallsOf(Tail(scripts))

RECURSIVE QCallsOf(_)
QCallsOf(scripts) ==
    IF scripts = <<>> THEN <<>>
    ELSE ShowPictureQCalls(ScriptContent(Head(scripts)), 1) \o QCallsOf(Tail(scripts))

(***************************************************************************)
(* SpecClean: clean_html on a fragment, one pass per step, and then once   *)
(* more on the string it returned.                                         *)
(***************************************************************************)
X == TextNode(<<"x">>)

NoticeText ==
    TextNode(<<"Zadanie", " ", "vypolnyaetsya", "\n", "s", " ", "ispolzovaniem", " ",
               "prilagaemyh", " ", "fajlov", ".">>)

ArchiveLink == Element("a", {<<"href", <<"assets/", "a", ".zip">>>>}, <<TextNode(<<"a", ".zip">>)>>)

Row(kids) == Element("tr", {}, <<Element("td", {}, kids)>>)

\* the fragments that are wrapped: each one is the business of one pass
Payloads ==
    { <<X>>,
      <<Element("p", {}, <<X>>), Element("p", {}, <<X>>)>>,
      <<Element("p", {}, <<Element("b", {}, <<>>)>>)>>,
      <<Element("p", {<<"class", <<"c">>>>, <<"id", <<"i">>>>},
                <<Element("span", {}, <<X>>), Element("br", {}, <<>>), TextNode(<<NBSP>>)>>)>>,
      <<Element("div", {}, <<X>>)>>,
      <<Element("div", {}, <<Element("table", {}, <<Row(<<X>>)>>)>>)>>,
      <<Element("script", {},
                <<TextNode(<<"ShowPictureQ", "(", "'", "f", ".gif", "'", ")">>)>>)>>,
      <<Element("script", {},
                <<TextNode(<<"ShowPictureQ2WH", "(", "'", "a", ".zip", "'", ",", "'",
                             "f", ".gif", "'", ",", "1", ")">>)>>)>>,
      <<Element("m:math", {}, <<Element("m:mo", {}, <<TextNode(<<Dash>>)>>)>>)>>,
      <<X, Element("m:math", {}, <<Element("m:mi", {}, <<X>>)>>)>>,
      <<Element("a", {<<"name", <<"n">>>>}, <<>>), X>>,
      <<Element("a", {}, <<X>>)>>,
      <<Element("a", {<<"href", <<"#">>>>}, <<X>>)>>,
      <<Element("table", {}, <<Row(<<NoticeText>>), Row(<<X>>)>>)>>,
      <<Element("table", {},
                <<Row(<<X>>), Row(<<ArchiveLink, Element("img", {<<"src", <<"i">>>>}, <<>>)>>)>>)>>,
      <<Element("table", {}, <<Row(<<>>)>>)>>,
      <<TextNode(<<" ">>), Element("p", {}, <<TextNode(<<" ">>)>>)>> }

ChainTags == {"td", "tr", "tbody"}

\* the fragment inside a chain of wrappers, with around around each wrapper
RECURSIVE Wrapped(_, _, _)
Wrapped(chain, around, fragment) ==
    IF chain = <<>> THEN fragment
    ELSE around \o <<Element(Head(chain), {}, Wrapped(Tail(chain), around, fragment))>>
         \o around

\* the HTML strings clean_html is given
RawFragments ==
    {Serialize(Wrapped(chain, around, fragment)) :
        chain \in StringsUpTo(ChainTags, MaxChain),
        around \in {<<>>, <<TextNode(<<"\n">>)>>},
        fragment \in Payloads}
    \cup {<<ImportPI>> \o Serialize(<<X>>)}

InitClean ==
    /\ pc = "clean"
    /\ raw_html \in RawFragments
    /\ root = <<>>
    /\ stats = NoStats
    /\ notice = FALSE
    /\ cleaned = <<>>
    /\ run = 1
    /\ text = <<>>
    /\ task_number = None
    /\ italic_vars = <<"N", "R">>
    /\ IdleJob
    /\ IdleSplit
    /\ IdleMerge
    /\ IdleNormalize
    /\ out = <<>>

\* lines 228-230: the import instructions are dropped, the string is parsed
ParseHtml ==
    /\ pc = "clean"
    /\ root' = ParseFragment(strip_import_pis(raw_html))
    /\ pc' = "tags"
    /\ UNCHANGED <<jobVars, textVars, raw_html, stats, notice, cleaned, run>>

\* lines 233-245
CleanTagsPass ==
    /\ pc = "tags"
    /\ root' = CleanTags(root)
    /\ pc' = "nbsp"
    /\ UNCHANGED <<jobVars, textVars, raw_html, stats, notice, cleaned, run>>

\* lines 248-250
NbspPass ==
    /\ pc = "nbsp"
    /\ root' = NormalizeNbsp(root)
    /\ pc' = "scripts"
    /\ UNCHANGED <<jobVars, textVars, raw_html, stats, notice, cleaned, run>>

\* lines 253-272
ScriptsPass ==
    /\ pc = "scripts"
    /\ root' = ReplaceScripts(root)
    /\ LET scripts == FindAll(root, {"script"})
           q2 == Q2CallsOf(scripts)
       IN  stats' = [stats EXCEPT
               !.showpictureq2_link = @ + Len(SelectSeq(q2, LAMBDA c : c.zip_name # <<>>)),
               !.showpictureq2_img = @ + Len(SelectSeq(q2, LAMBDA c : c.img_name # <<>>)),
               !.showpictureq_replaced = @ + Len(QCallsOf(scripts))]
    /\ pc' = "math"
    /\ UNCHANGED <<jobVars, textVars, raw_html, notice, cleaned, run>>

\* lines 275-282: every formula is counted, as a dash or as kept
MathPass ==
    /\ pc = "math"
    /\ root' = ProcessMath(root)
    /\ LET maths == FindAll(root, MathNames)
           dashes == Len(SelectSeq(maths, IsMathDash))
       IN  stats' = [stats EXCEPT !.math_dash_replaced = @ + dashes,
                                  !.math_kept = @ + Len(maths) - dashes]
    /\ pc' = "anchors"
    /\ UNCHANGED <<jobVars, textVars, raw_html, notice, cleaned, run>>

\* lines 285-293
AnchorsPass ==
    /\ pc = "anchors"
    /\ root' = StripAnchors(root)
    /\ LET anchors == SelectSeq(FindAll(root, {"a"}), NoHref)
           empty == Len(SelectSeq(anchors, IsEmptyAnchor))
       IN  stats' = [stats EXCEPT !.empty_anchor_removed = @ + empty,
                                  !.anchor_unwrapped = @ + Len(anchors) - empty]
    /\ pc' = "notice"
    /\ UNCHANGED <<jobVars, textVars, raw_html, notice, cleaned, run>>

\* line 295
NoticePass ==
    /\ pc = "notice"
    /\ root' = StripNoticeRows(root)
    /\ stats' = Counted(stats, "attachments_notice_removed", Len(NoticeRows(root)))
    /\ notice' = (NoticeRows(root) # <<>>)
    /\ pc' = "links"
    /\ UNCHANGED <<jobVars, textVars, raw_html, cleaned, run>>

\* line 296
LinkRowsPass ==
    /\ pc = "links"
    /\ root' = StripLinkRows(root)
    /\ stats' = Counted(stats, "attachment_link_rows_removed", Len(LinkRows(root)))
    /\ pc' = "empty"
    /\ UNCHANGED <<jobVars, textVars, raw_html, notice, cleaned, run>>

\* lines 299-305
EmptyPass ==
    /\ pc = "empty"
    /\ root' = PruneEmpty(root)
    /\ stats' = Counted(stats, "empty_tag_removed",
                        Len(SelectSeq(FindAll(root, EMPTY_REMOVABLE_TAGS), IsEmptyRemovable)))
    /\ pc' = "tables"
    /\ UNCHANGED <<jobVars, textVars, raw_html, notice, cleaned, run>>

\* line 307
TablesPass ==
    /\ pc = "tables"
    /\ root' = RemoveEmptyTables(root)
    /\ stats' = Counted(stats, "empty_table_removed", Len(EmptyTables(root)))
    /\ pc' = "collapse"
    /\ UNCHANGED <<jobVars, textVars, raw_html, notice, cleaned, run>>

\* lines 322-323: one iteration of while unwrap_single_wrapper(root)
UnwrapWrapper ==
    /\ pc = "collapse"
    /\ unwrap_single_wrapper(root)
    /\ root' = Unwrapped(root)
    /\ stats' = Counted(stats, "wrapper_unwrapped", 1)
    /\ UNCHANGED <<pc, jobVars, textVars, raw_html, notice, cleaned, run>>

\* lines 325-326: the loop is over, the fragment is written out
CleanReturn ==
    /\ pc = "collapse"
    /\ ~unwrap_single_wrapper(root)
    /\ cleaned' = Serialize(root)
    /\ pc' = "cleaned"
    /\ UNCHANGED <<jobVars, textVars, raw_html, root, stats, notice, run>>

\* clean_html is called on the string it returned, with a fresh Counter
CleanAgain ==
    /\ pc = "cleaned"
    /\ run = 1
    /\ raw_html' = cleaned
    /\ root' = <<>>
    /\ stats' = NoStats
    /\ notice' = FALSE
    /\ cleaned' = <<>>
    /\ run' = 2
    /\ pc' = "clean"
    /\ UNCHANGED <<jobVars, textVars>>

NextClean ==
    \/ ParseHtml \/ CleanTagsPass \/ NbspPass \/ ScriptsPass \/ MathPass \/ AnchorsPass
    \/ NoticePass \/ LinkRowsPass \/ EmptyPass \/ TablesPass
    \/ UnwrapWrapper \/ CleanReturn \/ CleanAgain

SpecClean == InitClean /\ [][NextClean]_vars

\* the loop at lines 322-323 keeps running until it returns
SpecCleanFair == SpecClean /\ WF_vars(UnwrapWrapper \/ CleanReturn)

\* C1: clean_html run on the cleaned string that clean_html returned rewrites
\* nothing: starting from an empty Counter every counter is zero after the
\* second run, and the second output equals its input.
SanitizerIdempotent ==
    pc = "cleaned" /\ run = 2 => stats = NoStats /\ cleaned = raw_html

\* root.contents when clean_html reaches line 322 on the string html
BeforeCollapse(html) ==
    RemoveEmptyTables(PruneEmpty(StripLinkRows(StripNoticeRows(StripAnchors(
        ProcessMath(ReplaceScripts(NormalizeNbsp(CleanTags(
            ParseFragment(strip_import_pis(html)))))))))))

\* the length of the chain of td/tr/tbody elements at the top of a fragment,
\* each the only child of the one around it that is not whitespace
RECURSIVE ChainDepth(_)
ChainDepth(contents) ==
    LET solid == SelectSeq(contents, LAMBDA c : ~(IsText(c) /\ StripHtml(c.s) = <<>>)) IN
    IF Len(solid) = 1 /\ IsTag(solid[1]) /\ solid[1].tag \in {"td", "tr", "tbody"}
    THEN 1 + ChainDepth(solid[1].kids)
    ELSE 0

\* C7: on a fragment whose top level is a chain of D nested single-child
\* td/tr/tbody elements the loop over unwrap_single_wrapper makes at most D
\* unwraps (each one shortens the chain by one), and when it stops the top
\* level is not a single td/tr/tbody child: a further collapse does nothing.
WrapperCollapseTerminates ==
    LET D == ChainDepth(BeforeCollapse(raw_html)) IN
    /\ [](pc = "collapse" => stats.wrapper_unwrapped + ChainDepth(root) = D)
    /\ [](pc = "cleaned" => stats.wrapper_unwrapped <= D /\ ChainDepth(root) = 0)
    /\ (pc = "collapse") ~> (pc = "cleaned")

\* a chain of MaxChain wrappers with whitespace around them has been
\* collapsed, and the whitespace is still there
WrapperCollapseTerminatesWitness ==
    /\ pc = "cleaned"
    /\ run = 1
    /\ stats.wrapper_unwrapped = MaxChain
    /\ Len(root) > 1
    /\ IsText(root[1]) /\ StripHtml(root[1].s) = <<>>

(***************************************************************************)
(* generate_task_mdx.main: the category of the task is looked up in the    *)
(* object of task numbers, and the Markdown is normalized with it.         *)
(* number_map is the object as the file holds it: a sequence of            *)
(* <<key, value>>, a value being null, an integer or a string.  A missing  *)
(* file, a file that is not JSON and a JSON value that is not an object    *)
(* give the same mapping as the empty object.                              *)
(***************************************************************************)
\* the most entries of the object of task numbers
MaxEntries == 2

JNull == [kind |-> "null"]

JInt(n) == [kind |-> "int", n |-> n]

JStr(str) == [kind |-> "str", s |-> str]

DecimalDigits == <<"0", "1", "2", "3", "4", "5", "6", "7", "8", "9">>

\* the value of a string of decimal digits
RECURSIVE Decimal(_)
Decimal(str) ==
    IF str = <<>> THEN 0
    ELSE 10 * Decimal(SubSeq(str, 1, Len(str) - 1))
         + (CHOOSE d \in 0..9 : DecimalDigits[d + 1] = str[Len(str)])

\* int(value) inside try/except (TypeError, ValueError): the number, or None
\* when int() raises
IntOrNone(value) ==
    IF value.kind = "int" THEN Some(value.n)
    ELSE IF /\ value.kind = "str"
            /\ Strip(value.s) # <<>>
            /\ \A k \in 1..Len(Strip(value.s)) :
                 \E d \in 1..10 : DecimalDigits[d] = Strip(value.s)[k]
    THEN Some(Decimal(Strip(value.s)))
    ELSE None

\* str.upper() on the identifiers of the model
UpperChar(c) == IF c = "a" THEN "A" ELSE IF c = "b" THEN "B" ELSE c

Upper(str) == [k \in 1..Len(str) |-> UpperChar(str[k])]

\* the for loop over raw.items(): entries 1..n have been stored in mapping
RECURSIVE LoadEntries(_, _)
LoadEntries(raw, n) ==
    IF n = 0 THEN {}
    ELSE LET key == Upper(raw[n][1])
             stored == IF raw[n][2] = JNull THEN None ELSE IntOrNone(raw[n][2])
         IN  {e \in LoadEntries(raw, n - 1) : e[1] # key} \cup {<<key, stored>>}

load_task_number_map(raw) == LoadEntries(raw, Len(raw))

\* mapping.get(key)
Get(mapping, key) ==
    IF \E e \in mapping : e[1] = key
    THEN (CHOOSE e \in mapping : e[1] = key)[2]
    ELSE None

GateKeys == {<<"a">>, <<"A">>}

GateValues == {JNull, JInt(5), JInt(6), JStr(<<"5">>), JStr(<<"x">>)}

RECURSIVE Objects(_)
Objects(n) ==
    IF n = 0 THEN {<<>>}
    ELSE Objects(n - 1)
         \cup {Append(o, <<k, v>>) : o \in {p \in Objects(n - 1) : Len(p) = n - 1},
                                       k \in GateKeys, v \in GateValues}

\* bodies with an integer, an italic variable, an equation, lettered items,
\* inline code and a fenced block
GateTexts ==
    { <<"1", "2", " ", "*", "N", "*", "\n">>,
      <<"*", "R", "*", " ", "=", " ", "$", "a", "$", " ", "3", "\n">>,
      <<"1", " ", "=", " ", "$", "a", "$", " ", "2", "\n">>,
      <<"a", ")", " ", "1", "\n", "\n", "b", ")", " ", "*", "N", "*", "\n">>,
      <<Backtick, "1", Backtick, " ", "2", "\n">>,
      <<"~", "~", "~", "\n", "1", "\n", "~", "~", "~", "\n", "3", "\n">>,
      <<"x", "\n">> }

InitGate ==
    /\ pc = "main"
    /\ number_map \in Objects(MaxEntries)
    /\ internal_id \in {<<"a">>, <<"b">>}
    /\ text \in GateTexts
    /\ task_number = None
    /\ italic_vars = <<"N", "R">>
    /\ row = NoRow
    /\ kes_text_by_code = <<>>
    /\ codes = <<>>
    /\ seen = {}
    /\ IdleSplit
    /\ IdleMerge
    /\ IdleNormalize
    /\ out = <<>>
    /\ IdleClean

\* internal_id = str(task.get("internal_id") or "").upper()
\* task_number = load_task_number_map().get(internal_id)
LoadTaskNumber ==
    /\ pc = "main"
    /\ internal_id' = Upper(internal_id)
    /\ task_number' = Get(load_task_number_map(number_map), Upper(internal_id))
    /\ pc' = "body"
    /\ UNCHANGED <<htmlVars, number_map, row, kes_text_by_code, codes, seen,
                   text, italic_vars, sp, prev, merged, md_lines, nm, out>>

\* body = normalize_math_in_markdown(body, task_number=task_number)
NormalizeBody ==
    /\ pc = "body"
    /\ out' = normalize_math_in_markdown(text, task_number)
    /\ pc' = "done"
    /\ UNCHANGED <<jobVars, htmlVars, text, task_number, italic_vars, sp, prev, merged,
                   md_lines, nm>>

NextGate == LoadTaskNumber \/ NormalizeBody

SpecGate == InitGate /\ [][NextGate]_vars

\* a region outside the fences with the numeric rule switched off: the
\* leading-space cleanup, the lettered sub-items and the equality merge
RuleOffRegion(t) ==
    IF t = <<>> THEN t
    ELSE ClaimedParts(normalize_letter_subpoints(DropSingleLeadingSpace(t)), "merge", None, 1, 1)

\* the Markdown with the numeric rule switched off: the lines of the fenced
\* blocks as they are, the regions between them by RuleOffRegion;
\* open is the marker of the open fence, region the lines read since the
\* last fenced block
RECURSIVE RuleOffLines(_, _, _)
RuleOffLines(lines, open, region) ==
    IF lines = <<>> THEN RuleOffRegion(region)
    ELSE LET line == Head(lines)
             marker == FenceMarker(line)
         IN  IF open = None /\ marker # None
             THEN RuleOffRegion(region) \o line \o RuleOffLines(Tail(lines), marker, <<>>)
             ELSE IF open = None
             THEN RuleOffLines(Tail(lines), None, region \o line)
             ELSE line \o RuleOffLines(Tail(lines), IF marker = open THEN None ELSE open, <<>>)

RuleOff(markdown) == RuleOffLines(SplitLinesKeepEnds(markdown), None, <<>>)

\* C11: normalize_math_in_markdown wraps integer tokens and rewrites the
\* italic variables only when task_number equals 5: for every other number
\* and for None (the task is absent from the object of task numbers, or maps
\* to no number) no integer token and no italic variable is rewritten: the
\* output is the one of the rule switched off.
NumericGate ==
    pc = "done" =>
        /\ task_number # Some(5) => out = RuleOff(text)
        /\ task_number # Some(5) => out = normalize_math_in_markdown(text, None)

\* a task that the object maps to no number has been normalized, and its
\* body is one that category 5 would have rewritten
NumericGateWitness ==
    /\ pc = "done"
    /\ task_number = None
    /\ \E e \in load_task_number_map(number_map) : e[1] = internal_id
    /\ out # normalize_math_in_markdown(text, Some(5))

(***************************************************************************)
(* convert_sub_sup_to_tex: the sub and sup elements of a fragment become   *)
(* TeX scripts.  The text of this part is one character per token.         *)
(***************************************************************************)
\* the most pieces of SubSupAlphabet a fragment is made of
MaxPieces == 3

\* _as_tex_script(kind, text)
_as_tex_script(kind, str) ==
    <<(IF kind = "sub" THEN "_" ELSE "^"), "{">> \o str \o <<"}">>

\* [0-9A-Za-z and the Cyrillic letters]
IsBaseChar(c) == c \in Digits \cup Letters

\* SUB_SUP_BASE_RE.search(text).start(1): where the run of base characters
\* that only whitespace follows starts, 0: no match
BaseStart(str) ==
    LET r == RStripHtml(str) IN
    IF r = <<>> \/ ~IsBaseChar(r[Len(r)]) THEN 0
    ELSE CHOOSE i \in 1..Len(r) :
           /\ \A k \in i..Len(r) : IsBaseChar(r[k])
           /\ i = 1 \/ ~IsBaseChar(r[i - 1])

\* SUB_SUP_BASE_RE.search(text).group(1)
BaseToken(str) == SubSeq(RStripHtml(str), BaseStart(str), Len(RStripHtml(str)))

\* re.fullmatch(r"\$[^$]+\$", stripped)
IsMathSpan(str) ==
    /\ Len(str) >= 3
    /\ str[1] = "$"
    /\ str[Len(str)] = "$"
    /\ \A k \in 2..(Len(str) - 1) : str[k] # "$"

\* the previous sibling that is not a whitespace string: its index among the
\* siblings before the element, 0: None
BaseNode(before) ==
    First({0 - j : j \in {k \in 1..Len(before) :
                            ~(IsText(before[k]) /\ StripHtml(before[k].s) = <<>>)}}) * (0 - 1)

\* the body of the for loop for one sub or sup element: before are the
\* siblings in front of it, the result is what stands there afterwards
ConvertScript(before, tag) ==
    LET script_text == GetTextStripped(tag.kids)
        script == _as_tex_script(tag.tag, script_text)
        bare == Append(before, TextNode(<<"$">> \o script \o <<"$">>))
        j == BaseNode(before)
        base_node == before[j]
        stripped == StripHtml(base_node.s)
        lead == Len(base_node.s) - Len(LStripHtml(base_node.s))
        base_text == GetTextStripped(base_node.kids)
    IN  IF script_text = <<>> THEN before
        ELSE IF j = 0 THEN bare
        ELSE IF IsText(base_node)
        THEN IF IsMathSpan(stripped)
             THEN [before EXCEPT ![j] =
                     TextNode(SubSeq(base_node.s, 1, lead)
                              \o SubSeq(stripped, 1, Len(stripped) - 1) \o script \o <<"$">>
                              \o SubSeq(base_node.s, lead + Len(stripped) + 1, Len(base_node.s)))]
             ELSE IF BaseStart(base_node.s) # 0
             THEN [before EXCEPT ![j] =
                     TextNode(SubSeq(base_node.s, 1, BaseStart(base_node.s) - 1)
                              \o <<"$">> \o BaseToken(base_node.s) \o script \o <<"$">>)]
             ELSE bare
        ELSE IF base_text # <<>>
             THEN [before EXCEPT ![j] = TextNode(<<"$">> \o base_text \o script \o <<"$">>)]
             ELSE bare

\* for tag in list(root.find_all(["sub", "sup"])): the elements are taken in
\* document order, so the siblings in front of one are already converted;
\* what is inside a sub or sup is dropped with it
RECURSIVE ConvertNodes(_, _, _)
ConvertNodes(nodes, k, before) ==
    IF k > Len(nodes) THEN before
    ELSE IF IsTag(nodes[k]) /\ nodes[k].tag \in {"sub", "sup"}
    THEN ConvertNodes(nodes, k + 1, ConvertScript(before, nodes[k]))
    ELSE IF IsTag(nodes[k])
    THEN ConvertNodes(nodes, k + 1,
                      Append(before, [nodes[k] EXCEPT !.kids = ConvertNodes(@, 1, <<>>)]))
    ELSE ConvertNodes(nodes, k + 1, Append(before, nodes[k]))

convert_sub_sup_to_tex(html) == Serialize(ConvertNodes(ParseFragment(html), 1, <<>>))

SubSupAlphabet ==
    { CharTokens(<<"a">>), CharTokens(<<" ">>), CharTokens(<<".">>),
      CharTokens(<<"$", "x", "$">>),
      <<StartTag("sub", {}), CharToken("1"), EndTag("sub")>>,
      <<StartTag("sup", {}), CharToken("2"), EndTag("sup")>>,
      <<StartTag("sub", {}), EndTag("sub")>>,
      <<StartTag("b", {}), CharToken("a"), CharToken(" "), CharToken("b"), EndTag("b")>>,
      <<StartTag("i", {}), CharToken("x"), EndTag("i")>> }

InitSubSup ==
    /\ pc = "convert"
    /\ raw_html \in Texts(SubSupAlphabet, MaxPieces)
    /\ root = <<>>
    /\ stats = NoStats
    /\ notice = FALSE
    /\ cleaned = <<>>
    /\ run = 0
    /\ text = <<>>
    /\ task_number = None
    /\ italic_vars = <<"N", "R">>
    /\ IdleJob
    /\ IdleSplit
    /\ IdleMerge
    /\ IdleNormalize
    /\ out = <<>>

\* soup = BeautifulSoup(f"<root>{html}</root>", "html.parser")
ConvertParse ==
    /\ pc = "convert"
    /\ root' = ParseFragment(raw_html)
    /\ pc' = "scripts"
    /\ UNCHANGED <<jobVars, textVars, raw_html, stats, notice, cleaned, run>>

\* the for loop over the sub and sup elements, and the return
ConvertScripts ==
    /\ pc = "scripts"
    /\ root' = ConvertNodes(root, 1, <<>>)
    /\ cleaned' = Serialize(ConvertNodes(root, 1, <<>>))
    /\ pc' = "converted"
    /\ UNCHANGED <<jobVars, textVars, raw_html, stats, notice, run>>

NextSubSup == ConvertParse \/ ConvertScripts

SpecSubSup == InitSubSup /\ [][NextSubSup]_vars

\* the characters of an HTML string, the tags left out
TextOf(html) ==
    LET chars == SelectSeq(html, LAMBDA token : token.k = "char")
    IN  [k \in 1..Len(chars) |-> chars[k].c]

\* the top-level sub and sup elements of the fragment that are not empty
ScriptsOf(nodes) ==
    {k \in 1..Len(nodes) : /\ IsTag(nodes[k])
                           /\ nodes[k].tag \in {"sub", "sup"}
                           /\ GetTextStripped(nodes[k].kids) # <<>>}

\* the nearest content in front of element k that is not whitespace: the
\* whitespace strings and the empty sub and sup elements are passed over
NearestBefore(nodes, k) ==
    First({0 - j : j \in {i \in 1..(k - 1) :
                            /\ ~(IsText(nodes[i]) /\ StripHtml(nodes[i].s) = <<>>)
                            /\ ~(IsTag(nodes[i]) /\ nodes[i].tag \in {"sub", "sup"})}}) * (0 - 1)

\* what the claim gives for a fragment whose only script is element k, as
\* text: the content in front of the base token as it is, the span, and
\* what follows the element (gap: the whitespace between base and element)
ClaimedScript(nodes, k, gap) ==
    LET j == NearestBefore(nodes, k)
        preceding == Join(Strings(<<nodes[j]>>))
        script == _as_tex_script(nodes[k].tag, GetTextStripped(nodes[k].kids))
        rest == TextOf(Serialize(SubSeq(nodes, k + 1, Len(nodes))))
        between == IF gap THEN TextOf(Serialize(SubSeq(nodes, j + 1, k - 1))) ELSE <<>>
    IN  IF j = 0 \/ BaseStart(preceding) = 0
        THEN TextOf(Serialize(SubSeq(nodes, 1, k - 1))) \o <<"$">> \o script \o <<"$">> \o rest
        ELSE TextOf(Serialize(SubSeq(nodes, 1, j - 1)))
             \o SubSeq(preceding, 1, BaseStart(preceding) - 1)
             \o <<"$">> \o BaseToken(preceding) \o script \o <<"$">> \o between \o rest

\* the nearest content in front of element k ends with a complete span
SpanBefore(nodes, k) ==
    LET j == NearestBefore(nodes, k)
        preceding == StripHtml(Join(Strings(<<nodes[j]>>)))
    IN  /\ j # 0
        /\ \E i \in 1..Len(preceding) : IsMathSpan(SubSeq(preceding, i, Len(preceding)))

\* C12: for a non-empty sub or sup element whose nearest preceding
\* non-whitespace content is not a complete span, the base is the trailing
\* alphanumeric token of the preceding text, base and script are wrapped in
\* one new span, the content before the token is kept unchanged outside the
\* span, and without such a token the script alone becomes a bare span.
\* Stated on the text of the fragments that hold one such element.
SubSupTokenBase ==
    pc = "converted" =>
        \A k \in ScriptsOf(ParseFragment(raw_html)) :
            ScriptsOf(ParseFragment(raw_html)) = {k} /\ ~SpanBefore(ParseFragment(raw_html), k)
            => TextOf(cleaned) \in {ClaimedScript(ParseFragment(raw_html), k, TRUE),
                                    ClaimedScript(ParseFragment(raw_html), k, FALSE)}

\* the same on the fragments where the nearest preceding content is a string
SubSupTokenBaseOfText ==
    pc = "converted" =>
        \A k \in ScriptsOf(ParseFragment(raw_html)) :
            /\ ScriptsOf(ParseFragment(raw_html)) = {k}
            /\ ~SpanBefore(ParseFragment(raw_html), k)
            /\ NearestBefore(ParseFragment(raw_html), k) # 0
               => IsText(ParseFragment(raw_html)[NearestBefore(ParseFragment(raw_html), k)])
            => TextOf(cleaned) \in {ClaimedScript(ParseFragment(raw_html), k, TRUE),
                                    ClaimedScript(ParseFragment(raw_html), k, FALSE)}

(***************************************************************************)
(* SpecEquality: _merge_equals_in_text on texts that hold one equation     *)
(* between two operands, in plain text.                                    *)
(***************************************************************************)
EqualityOperands ==
    { <<"$", "a", "$">>,
      <<"$", " ", "a", " ", "b", " ", "$">>,
      <<"$", "1", "1", "_", "{", "1", "0", "}", "$">>,
      <<"$", "1", "0", "2", "_", "{", "3", "}", "$">>,
      <<"$", "1", "1", "0", "0", "_", "{", "2", "}", "$">>,
      <<"1", "2">> }

EqualityGaps == {<<>>, <<" ">>, <<" ", " ">>}

EqualityContexts == {<<>>, <<"x", " ">>, <<" ", "y">>, <<"3", " ">>, <<".">>}

EqualityTexts ==
    {pre \o a \o g \o <<"=">> \o h \o b \o post :
        pre \in EqualityContexts, a \in EqualityOperands, g \in EqualityGaps,
        h \in {<<>>, <<" ">>}, b \in EqualityOperands, post \in EqualityContexts}

InitEquality ==
    /\ pc = "merge"
    /\ text \in EqualityTexts
    /\ task_number = None
    /\ italic_vars = <<"N", "R">>
    /\ IdleSplit
    /\ IdleMerge
    /\ IdleNormalize
    /\ out = <<>>
    /\ IdleClean
    /\ IdleJob

SpecEquality == InitEquality /\ [][NextMerge]_vars

\* a formula operand of the claim: $A$, A not empty, without $ and newline
IsFormulaOperand(str) ==
    /\ Len(str) >= 3
    /\ str[1] = "$"
    /\ str[Len(str)] = "$"
    /\ \A k \in 2..(Len(str) - 1) : str[k] \notin {"$", "\n"}

\* a number operand of the claim: digits
IsNumberOperand(str) == str # <<>> /\ \A k \in 1..Len(str) : str[k] \in Digits

\* what the claim calls A or B of an operand
OperandBody(str) == IF IsNumberOperand(str) THEN str ELSE SubSeq(str, 2, Len(str) - 1)

\* the text is pre, an operand, "=" at p with whitespace around it, an
\* operand, post: one of the three patterns in plain text, a number operand
\* being a whole token
IsEquationAt(t, i, p, e) ==
    LET a == RStrip(SubSeq(t, i, p - 1))
        b == LStrip(SubSeq(t, p + 1, e))
        pre == SubSeq(t, 1, i - 1)
        post == SubSeq(t, e + 1, Len(t))
    IN  /\ t[p] = "="
        /\ IsFormulaOperand(a) \/ IsNumberOperand(a)
        /\ IsFormulaOperand(b) \/ IsNumberOperand(b)
        /\ IsFormulaOperand(a) \/ IsFormulaOperand(b)
        /\ t[i] \notin Whitespace /\ t[e] \notin Whitespace
        /\ IsNumberOperand(a) => (i = 1 \/ ~IsWordChar(t[i - 1]))
        /\ IsNumberOperand(b) => (e = Len(t) \/ ~IsWordChar(t[e + 1]))
        /\ \A k \in 1..Len(pre) : pre[k] \notin {"$", "="}
        /\ \A k \in 1..Len(post) : post[k] \notin {"$", "="}

\* the single span the claim promises in place of the equation
ClaimedEquation(t, i, p, e) ==
    SubSeq(t, 1, i - 1)
    \o <<"$">> \o Strip(OperandBody(RStrip(SubSeq(t, i, p - 1))))
    \o <<" ", "=", " ">> \o Strip(OperandBody(LStrip(SubSeq(t, p + 1, e)))) \o <<"$">>
    \o SubSeq(t, e + 1, Len(t))

\* C13: each of the patterns $A$ = $B$, N = $B$ and $A$ = N (N a bare
\* integer, A and B without $ or newline) is replaced by the single span
\* $A = B$, the whitespace around A and B removed and one space on each side
\* of the equals sign; the text around the pattern stays as it is.
EqualityMergeResult ==
    pc = "done" =>
        \A i \in 1..Len(text) : \A p \in i..Len(text) : \A e \in p..Len(text) :
            IsEquationAt(text, i, p, e) => out = ClaimedEquation(text, i, p, e)

\* the second example of the claim has been merged
EqualityMergeResultWitness ==
    /\ pc = "done"
    /\ text = <<"1", "2", " ", "=", " ", "$", "1", "1", "0", "0", "_", "{", "2", "}", "$">>
    /\ out = <<"$", "1", "2", " ", "=", " ", "1", "1", "0", "0", "_", "{", "2", "}", "$">>

(***************************************************************************)
(* SpecSubpoints: normalize_letter_subpoints on texts of a few lines.      *)
(***************************************************************************)
SubpointsAlphabet ==
    { <<"2", ".", " ", "t", "\n">>,
      <<"t", "\n">>,
      <<"\n">>,
      <<"a", ")", " ", "x", "\n">>,
      <<"b", ")", "y", "\n">> }

InitSubpoints ==
    /\ pc = "subpoints"
    /\ text \in Texts(SubpointsAlphabet, MaxLen)
    /\ task_number = None
    /\ italic_vars = <<"N", "R">>
    /\ IdleSplit
    /\ IdleMerge
    /\ IdleNormalize
    /\ out = <<>>
    /\ IdleClean
    /\ IdleJob

\* if not markdown: return markdown
SubpointsEmpty ==
    /\ pc = "subpoints"
    /\ text = <<>>
    /\ out' = text
    /\ pc' = "done"
    /\ UNCHANGED <<jobVars, htmlVars, text, task_number, italic_vars, sp, prev, merged,
                   md_lines, nm>>

\* the while loop over the lines, and the return
SubpointsRun ==
    /\ pc = "subpoints"
    /\ text # <<>>
    /\ out' = normalize_letter_subpoints(text)
    /\ pc' = "done"
    /\ UNCHANGED <<jobVars, htmlVars, text, task_number, italic_vars, sp, prev, merged,
                   md_lines, nm>>

NextSubpoints == SubpointsEmpty \/ SubpointsRun

SpecSubpoints == InitSubpoints /\ [][NextSubpoints]_vars

\* the paragraphs of the lines from k on: the runs of lines that are not blank
RECURSIVE Paragraphs(_, _)
Paragraphs(lines, k) ==
    LET start == SkipLines(lines, k, FALSE)
        end == SkipLines(lines, start, TRUE)
    IN  IF start > Len(lines) THEN <<>>
        ELSE <<SubSeq(lines, start, end - 1)>> \o Paragraphs(lines, end)

\* the text is a numbered list item followed by a group of lettered items
\* that runs to the end of the text
IsItemWithGroup(paragraphs) ==
    /\ Len(paragraphs) >= 2
    /\ OrderedItemEnd(paragraphs[1][1]) # 0
    /\ \A k \in 2..Len(paragraphs) : LetterItemMatches(LStrip(paragraphs[k][1]))

\* a lettered item as the claim renders it: label) rest, and the
\* continuation lines, all at the indent
ClaimedItem(item, indent) ==
    [k \in 1..Len(item) |->
        IF k = 1
        THEN indent \o <<LStrip(item[1])[1], ")", " ">> \o Strip(From(LStrip(item[1]), 3))
        ELSE indent \o Strip(item[k])]

\* the numbered item as it is, then every item of the group as a paragraph
\* of its own, at the width of the marker of the numbered item
ClaimedGroup(paragraphs) ==
    [k \in 1..Len(paragraphs) |->
        IF k = 1 THEN paragraphs[1]
        ELSE ClaimedItem(paragraphs[k], Spaces(OrderedItemEnd(paragraphs[1][1])))]

\* where the second paragraph of the lines starts
SecondParagraph(lines) ==
    SkipLines(lines, SkipLines(lines, SkipLines(lines, 1, FALSE), TRUE), FALSE)

\* at most one blank line in a row from line k on
OneBlankBetween(lines, k) ==
    \A i \in k..Len(lines) :
        IsBlank(lines[i]) => (i = Len(lines) \/ ~IsBlank(lines[i + 1]))

\* C14: when the paragraph immediately preceding a group of lettered items
\* is a numbered list item, every item of the group is emitted as its own
\* paragraph "label) rest", indented by the width of the numbered marker
\* (continuation lines at the same indent), no bullet marker added, the
\* items one blank line apart.
SubItemsUnderNumberedItem ==
    pc = "done" /\ IsItemWithGroup(Paragraphs(SplitLines(text), 1)) =>
        /\ Paragraphs(SplitLines(out), 1) = ClaimedGroup(Paragraphs(SplitLines(text), 1))
        /\ OneBlankBetween(SplitLines(out), SecondParagraph(SplitLines(out)))

\* the same when the numbered item is a paragraph of one line
SubItemsUnderOneLineItem ==
    pc = "done" /\ IsItemWithGroup(Paragraphs(SplitLines(text), 1))
                /\ Len(Paragraphs(SplitLines(text), 1)[1]) = 1 =>
        /\ Paragraphs(SplitLines(out), 1) = ClaimedGroup(Paragraphs(SplitLines(text), 1))
        /\ OneBlankBetween(SplitLines(out), SecondParagraph(SplitLines(out)))

(***************************************************************************)
(* SpecScripts: clean_html on fragments that hold a script element with a  *)
(* few calls in it.                                                        *)
(***************************************************************************)
\* the most calls in a script
MaxCalls == 2

ScriptCalls ==
    { <<"ShowPictureQ", "(", "'", "f", ".gif", "'", ")">>,
      <<"ShowPictureQ", "(", "'", "'", ")">>,
      <<"ShowPictureQ2WH", "(", "'", "a", ".zip", "'", ",", "'", "f", ".gif", "'", ",", "1", ")">>,
      <<"ShowPictureQ2WH", "(", "'", "'", ",", "'", "f", ".gif", "'", ",", "1", ")">>,
      <<"ShowPictureQ2WH", "(", "'", "a", ".zip", "'", ",", "'", "'", ",", "1", ")">>,
      <<"alert", "(", ")">> }

\* a script element with the content; an empty script has no string in it
ScriptElement(content) ==
    Element("script", {}, IF content = <<>> THEN <<>> ELSE <<TextNode(content)>>)

ScriptFragments ==
    UNION {{ <<ScriptElement(content)>>,
             <<Element("p", {}, <<X, ScriptElement(content), X>>)>>,
             <<Element("td", {}, <<ScriptElement(content), X>>)>>,
             <<Element("table", {}, <<Row(<<ScriptElement(content)>>)>>)>> } :
           content \in Texts(ScriptCalls, MaxCalls)}

InitScripts ==
    /\ pc = "clean"
    /\ raw_html \in {Serialize(fragment) : fragment \in ScriptFragments}
    /\ root = <<>>
    /\ stats = NoStats
    /\ notice = FALSE
    /\ cleaned = <<>>
    /\ run = 1
    /\ text = <<>>
    /\ task_number = None
    /\ italic_vars = <<"N", "R">>
    /\ IdleJob
    /\ IdleSplit
    /\ IdleMerge
    /\ IdleNormalize
    /\ out = <<>>

SpecScripts == InitScripts /\ [][NextClean]_vars

\* the tree the script pass is given
BeforeScripts(html) == NormalizeNbsp(CleanTags(ParseFragment(strip_import_pis(html))))

\* <a href="assets/name">name</a> as a string
LinkMarkup(name) ==
    <<StartTag("a", {<<"href", <<"assets/">> \o name>>})>> \o CharTokens(name) \o <<EndTag("a")>>

\* <img alt="" src="assets/name"/> as a string
ImgMarkup(name) == <<StartEndTag("img", {<<"src", <<"assets/">> \o name>>, <<"alt", <<>>>>})>>

\* the markup the claim puts in place of a script: for each ShowPictureQ2WH
\* call a link and an image (given: only the ones whose name is not empty),
\* then for each ShowPictureQ call an image
RECURSIVE ClaimedQ2Markup(_, _)
ClaimedQ2Markup(calls, given) ==
    IF calls = <<>> THEN <<>>
    ELSE (IF given /\ Head(calls).zip_name = <<>> THEN <<>> ELSE LinkMarkup(Head(calls).zip_name))
         \o (IF given /\ Head(calls).img_name = <<>> THEN <<>> ELSE ImgMarkup(Head(calls).img_name))
         \o ClaimedQ2Markup(Tail(calls), given)

RECURSIVE ClaimedQMarkup(_)
ClaimedQMarkup(names) ==
    IF names = <<>> THEN <<>> ELSE ImgMarkup(Head(names)) \o ClaimedQMarkup(Tail(names))

\* the HTML string with every <script>...</script> replaced by the markup
\* of its calls
RECURSIVE ClaimedRewrite(_, _, _)
ClaimedRewrite(html, i, given) ==
    CHOOSE r \in {IF j = 0 THEN SubSeq(html, i, Len(html))
                  ELSE SubSeq(html, i, j - 1)
                       \o ClaimedQ2Markup(ShowPictureQ2WHCalls(TextOf(SubSeq(html, j + 1, e - 1)), 1), given)
                       \o ClaimedQMarkup(ShowPictureQCalls(TextOf(SubSeq(html, j + 1, e - 1)), 1))
                       \o ClaimedRewrite(html, e + 1, given) :
                  j \in {First({k \in i..Len(html) : html[k] = StartTag("script", {})})},
                  e \in {First({k \in i..Len(html) : html[k] = EndTag("script")})}} : TRUE

NoScript(html) == \A k \in 1..Len(html) : html[k].tag # "script"

\* C15 as stated: before every script clean_html inserts an img for each
\* ShowPictureQ call, and an anchor plus an img for each ShowPictureQ2WH
\* call, and removes the script; a script with no recognized call leaves
\* nothing; no script element remains in the cleaned tree.
ScriptRewriteEveryCall ==
    /\ pc = "math" /\ run = 1 =>
         Serialize(root) = ClaimedRewrite(Serialize(BeforeScripts(raw_html)), 1, FALSE)
    /\ pc = "cleaned" => NoScript(cleaned)

\* C15 amended: the anchor of a ShowPictureQ2WH call is inserted when its
\* first argument is not empty and the img when its second argument is not
\* empty; the rest as stated.
ScriptRewrite ==
    /\ pc = "math" /\ run = 1 =>
         Serialize(root) = ClaimedRewrite(Serialize(BeforeScripts(raw_html)), 1, TRUE)
    /\ pc = "cleaned" => NoScript(cleaned)

\* a script with a call of each kind, one of them without its archive, has
\* been replaced
ScriptRewriteWitness ==
    /\ pc = "math"
    /\ run = 1
    /\ stats.showpictureq_replaced = 1
    /\ stats.showpictureq2_img = 1
    /\ stats.showpictureq2_link = 0
    /\ ~NoScript(raw_html)
    /\ NoScript(Serialize(root))

(***************************************************************************)
(* The renderer: render_node, render_children, render_list and             *)
(* html_to_markdown.  The Markdown is a string of the tokens of the text   *)
(* nodes; the markup that is kept as HTML is written with the tokens "<",  *)
(* "</", "/>" and ">" around the name and the attributes.                  *)
(***************************************************************************)
\* the attributes of a tag as text, one after the other
RECURSIVE AttrsText(_)
AttrsText(attrs) ==
    IF attrs = {} THEN <<>>
    ELSE LET a == CHOOSE x \in attrs : TRUE
         IN  <<" ", a[1], "=", "\"">> \o a[2] \o <<"\"">> \o AttrsText(attrs \ {a})

\* an HTML string as text
RECURSIVE MarkupText(_)
MarkupText(html) ==
    IF html = <<>> THEN <<>>
    ELSE LET token == Head(html) IN
         (IF token.k = "char" THEN <<token.c>>
          ELSE IF token.k = "start" THEN <<"<", token.tag>> \o AttrsText(token.attrs) \o <<">">>
          ELSE IF token.k = "end" THEN <<"</", token.tag, ">">>
          ELSE IF token.k = "startend" THEN <<"<", token.tag>> \o AttrsText(token.attrs) \o <<"/>">>
          ELSE <<"<?", token.tag, ">">>)
         \o MarkupText(Tail(html))

\* node.get(name, ""): the value, the empty string when it is missing
GetOrEmpty(node, name) == IF GetAttr(node, name) = None THEN <<>> ELSE GetAttr(node, name)[1]

\* body.replace("\n", "\n" + indent + "   ")
IndentBody(body, indent) == Replace(body, <<"\n">>, <<"\n">> \o indent \o <<" ", " ", " ">>)

RECURSIVE render_node(_, _), render_children(_, _), RenderListItems(_, _, _, _)

\* "".join(render_node(child, indent) for child in tag.children)
render_children(nodes, indent) ==
    IF nodes = <<>> THEN <<>>
    ELSE render_node(Head(nodes), indent) \o render_children(Tail(nodes), indent)

\* the for loop of render_list: items, index being the number of the next li
RenderListItems(nodes, indent, ordered, index) ==
    IF nodes = <<>> THEN <<>>
    ELSE LET child == Head(nodes) IN
         IF IsText(child)
         THEN (IF StripHtml(child.s) # <<>> THEN <<indent \o StripHtml(child.s)>> ELSE <<>>)
              \o RenderListItems(Tail(nodes), indent, ordered, index)
         ELSE IF child.tag # "li"
         THEN <<render_node(child, indent)>> \o RenderListItems(Tail(nodes), indent, ordered, index)
         ELSE LET marker == IF ordered THEN <<DecimalDigits[index + 1], ".">> ELSE <<"-">>
                  body == IndentBody(StripHtml(render_children(child.kids, indent \o <<" ", " ", " ">>)),
                                     indent)
              IN  <<indent \o marker \o <<" ">> \o body>>
                  \o RenderListItems(Tail(nodes), indent, ordered, index + 1)

\* render_list(tag, indent, ordered)
render_list(nodes, indent, ordered) ==
    JoinLines(RenderListItems(nodes, indent, ordered, 1)) \o <<"\n">>

render_node(node, indent) ==
    IF IsText(node) THEN node.s
    ELSE IF node.tag = "br" THEN <<"\n">>
    ELSE IF node.tag \in {"strong", "b"}
    THEN <<"*", "*">> \o render_children(node.kids, indent) \o <<"*", "*">>
    ELSE IF node.tag \in {"em", "i"}
    THEN <<"*">> \o render_children(node.kids, indent) \o <<"*">>
    ELSE IF node.tag = "code"
    THEN <<Backtick>>
         \o Replace(render_children(node.kids, indent), <<Backtick>>, <<"\\", Backtick>>)
         \o <<Backtick>>
    ELSE IF node.tag = "pre"
    THEN <<"\n", Backtick, Backtick, Backtick, "\n">> \o StripHtml(Join(Strings(node.kids)))
         \o <<"\n", Backtick, Backtick, Backtick, "\n">>
    ELSE IF node.tag = "img"
    THEN <<"!", "[">> \o GetOrEmpty(node, "alt") \o <<"]", "(">> \o GetOrEmpty(node, "src") \o <<")">>
    ELSE IF node.tag = "a"
    THEN LET href == GetOrEmpty(node, "href")
             inner == StripHtml(render_children(node.kids, indent))
             shown == IF inner # <<>> THEN inner ELSE href
         IN  IF href # <<>> THEN <<"[">> \o shown \o <<"]", "(">> \o href \o <<")">> ELSE shown
    ELSE IF node.tag = "ul"
    THEN <<"\n">> \o render_list(node.kids, indent, FALSE) \o <<"\n">>
    ELSE IF node.tag = "ol"
    THEN <<"\n">> \o render_list(node.kids, indent, TRUE) \o <<"\n">>
    ELSE IF node.tag = "li"
    THEN indent \o <<"-", " ">>
         \o IndentBody(StripHtml(render_children(node.kids, indent \o <<" ", " ", " ">>)), indent)
         \o <<"\n">>
    ELSE IF node.tag = "p"
    THEN LET content == StripHtml(render_children(node.kids, indent))
         IN  IF content = <<>> THEN <<"\n">> ELSE content \o <<"\n", "\n">>
    ELSE IF node.tag = "table"
    THEN <<"\n">> \o MarkupText(Serialize(<<node>>)) \o <<"\n">>
    ELSE IF node.tag \in {"math", "m:math", "tbody", "thead", "tr", "td", "th"}
    THEN MarkupText(Serialize(<<node>>))
    ELSE render_children(node.kids, indent)

\* a substitution that leaves the runs of newlines as they are
CollapseNewlinesNone(md) == md

\* re.sub(r"\n{3,}", "\n\n", md)
RECURSIVE CollapseNewlinesFrom(_, _)
CollapseNewlinesFrom(md, i) ==
    CHOOSE r \in {IF j = 0 THEN SubSeq(md, i, Len(md))
                  ELSE SubSeq(md, i, j - 1) \o <<"\n", "\n">>
                       \o CollapseNewlinesFrom(md, RunEnd(md, {"\n"}, j)) :
                  j \in {First({k \in i..Len(md) : RunEnd(md, {"\n"}, k) >= k + 3})}} : TRUE

CollapseNewlines(md) == CollapseNewlinesFrom(md, 1)

html_to_markdown(cleaned_html) ==
    StripHtml(CollapseNewlines(render_children(ParseFragment(cleaned_html), <<>>))) \o <<"\n">>

(***************************************************************************)
(* SpecRender: html_to_markdown, one statement per step, either on the     *)
(* string clean_html returns for a fragment (transform_tasks.main) or on   *)
(* an HTML string on its own (generate_task_mdx.main).                     *)
(***************************************************************************)
\* what a td of scenario A holds
ScenarioPieces ==
    { Element("b", {}, <<>>),
      Element("i", {}, <<TextNode(<<" ">>)>>),
      Element("p", {}, <<TextNode(<<"Hello">>)>>),
      Element("p", {}, <<TextNode(<<" ", "x", " ", "y", "\n">>)>>),
      Element("p", {}, <<>>),
      TextNode(<<"\n">>) }

ScenarioFragments ==
    {<<Element("td", {}, kids)>> : kids \in StringsUpTo(ScenarioPieces, MaxPieces)}

\* what an HTML string given to the renderer is made of
RenderPieces ==
    { TextNode(<<"x">>), TextNode(<<" ">>), TextNode(<<"\n">>),
      Element("br", {}, <<>>),
      Element("p", {}, <<X>>),
      Element("p", {}, <<>>),
      Element("b", {}, <<X>>),
      Element("ul", {}, <<Element("li", {}, <<X, Element("br", {}, <<>>), X>>)>>),
      Element("ol", {}, <<Element("li", {}, <<X>>), TextNode(<<"\n">>), Element("li", {}, <<>>)>>),
      Element("pre", {}, <<TextNode(<<"\n", "x", "\n">>)>>),
      Element("a", {<<"href", <<"u">>>>}, <<>>),
      Element("table", {}, <<Row(<<X>>)>>) }

RenderInputs == {Serialize(nodes) : nodes \in StringsUpTo(RenderPieces, MaxPieces)}

InitRender ==
    /\ \/ /\ pc = "clean"
          /\ raw_html \in {Serialize(fragment) : fragment \in ScenarioFragments}
          /\ cleaned = <<>>
          /\ run = 1
       \/ /\ pc = "cleaned"
          /\ raw_html = <<>>
          /\ cleaned \in RenderInputs
          /\ run = 0
    /\ root = <<>>
    /\ stats = NoStats
    /\ notice = FALSE
    /\ text = <<>>
    /\ task_number = None
    /\ italic_vars = <<"N", "R">>
    /\ IdleJob
    /\ IdleSplit
    /\ IdleMerge
    /\ IdleNormalize
    /\ out = <<>>

\* soup = BeautifulSoup(f"<root>{cleaned_html}</root>", "html.parser")
RenderParse ==
    /\ pc = "cleaned"
    /\ root' = ParseFragment(cleaned)
    /\ pc' = "render"
    /\ UNCHANGED <<jobVars, textVars, raw_html, stats, notice, cleaned, run>>

\* md = render_children(root)
RenderTree ==
    /\ pc = "render"
    /\ out' = render_children(root, <<>>)
    /\ pc' = "newlines"
    /\ UNCHANGED <<jobVars, htmlVars, text, task_number, italic_vars, sp, prev, merged,
                   md_lines, nm>>

\* md = re.sub(r"\n{3,}", "\n\n", md)
RenderCollapse ==
    /\ pc = "newlines"
    /\ out' = CollapseNewlines(out)
    /\ pc' = "strip"
    /\ UNCHANGED <<jobVars, htmlVars, text, task_number, italic_vars, sp, prev, merged,
                   md_lines, nm>>

\* return md.strip() + "\n"
RenderReturn ==
    /\ pc = "strip"
    /\ out' = StripHtml(out) \o <<"\n">>
    /\ pc' = "rendered"
    /\ UNCHANGED <<jobVars, htmlVars, text, task_number, italic_vars, sp, prev, merged,
                   md_lines, nm>>

NextRender ==
    \/ ParseHtml \/ CleanTagsPass \/ NbspPass \/ ScriptsPass \/ MathPass \/ AnchorsPass
    \/ NoticePass \/ LinkRowsPass \/ EmptyPass \/ TablesPass
    \/ UnwrapWrapper \/ CleanReturn
    \/ RenderParse \/ RenderTree \/ RenderCollapse \/ RenderReturn

SpecRender == InitRender /\ [][NextRender]_vars

\* the fragment is a single td that holds empty removable elements,
\* paragraphs of text and whitespace
IsScenarioA(nodes) ==
    /\ Len(nodes) = 1
    /\ nodes[1].tag = "td"
    /\ \A k \in 1..Len(nodes[1].kids) :
         LET kid == nodes[1].kids[k] IN
         \/ IsText(kid) /\ StripHtml(kid.s) = <<>>
         \/ kid.tag = "p" /\ \A j \in 1..Len(kid.kids) : IsText(kid.kids[j])
         \/ /\ kid.tag \in EMPTY_REMOVABLE_TAGS \ {"p"}
            /\ \A j \in 1..Len(kid.kids) : IsText(kid.kids[j]) /\ StripHtml(kid.kids[j].s) = <<>>

\* the texts of the paragraphs that have one, in order
ParagraphTexts(kids) ==
    LET paragraphs == SelectSeq(kids, LAMBDA kid : kid.tag = "p" /\ StripHtml(Join(Strings(kid.kids))) # <<>>)
    IN  [k \in 1..Len(paragraphs) |-> StripHtml(Join(Strings(paragraphs[k].kids)))]

\* the children of the td that are not empty elements
KeptOfTd(kids) ==
    SelectSeq(kids, LAMBDA kid : IsText(kid) \/ StripHtml(Join(Strings(kid.kids))) # <<>>)

\* C16: for a fragment whose top level is a single td holding empty
\* removable inline elements and paragraphs, clean_html prunes the empty
\* elements and unwraps the td, and html_to_markdown of the result is the
\* text of the paragraphs separated by blank lines, with exactly one
\* trailing newline.
ScenarioA ==
    pc = "rendered" /\ run = 1 /\ IsScenarioA(ParseFragment(raw_html)) =>
        /\ cleaned = Serialize(KeptOfTd(ParseFragment(raw_html)[1].kids))
        /\ stats.wrapper_unwrapped = 1
        /\ out = JoinWith(ParagraphTexts(ParseFragment(raw_html)[1].kids), <<"\n", "\n">>) \o <<"\n">>

\* <td><b></b><p>Hello</p></td> has been rendered to "Hello\n"
ScenarioAWitness ==
    /\ pc = "rendered"
    /\ run = 1
    /\ raw_html = Serialize(<<Element("td", {}, <<Element("b", {}, <<>>),
                                                  Element("p", {}, <<TextNode(<<"Hello">>)>>)>>)>>)
    /\ stats.empty_tag_removed = 1
    /\ out = <<"Hello", "\n">>

\* C20: the string html_to_markdown returns holds no run of three or more
\* newlines, does not start with whitespace and ends with exactly one
\* newline; an input that renders to nothing gives a single newline.
RendererPostPass ==
    pc = "rendered" =>
        /\ \A k \in 1..(Len(out) - 2) : ~(out[k] = "\n" /\ out[k + 1] = "\n" /\ out[k + 2] = "\n")
        /\ out # <<>> /\ out[Len(out)] = "\n"
        /\ Len(out) > 1 => out[Len(out) - 1] # "\n" /\ out[1] \notin StripChars
        /\ StripHtml(render_children(ParseFragment(cleaned), <<>>)) = <<>> => out = <<"\n">>

\* a rendering with a run of newlines inside and whitespace at both ends
\* has been through the post-pass
RendererPostPassWitness ==
    /\ pc = "rendered"
    /\ LET md == render_children(ParseFragment(cleaned), <<>>) IN
         /\ \E k \in 2..(Len(md) - 3) :
              md[k - 1] # "\n" /\ md[k] = "\n" /\ md[k + 1] = "\n" /\ md[k + 2] = "\n"
         /\ md[1] \in StripChars
         /\ md[Len(md)] \in StripChars
         /\ Len(out) > 1

(***************************************************************************)
(* transform_tasks.main: the loop over the classification entries of the   *)
(* tasks, and the reference table written at the end.  An entry is a JSON  *)
(* value; the table is the dict kes_text_by_code in insertion order.       *)
(***************************************************************************)
\* the most entries in the classification list of a task
MaxItems == 2

\* the most tasks in the input
MaxTasks == 2

\* the end (exclusive) of (?:\.\d+)* from e on
RECURSIVE PathEnd(_, _)
PathEnd(t, e) ==
    IF e + 1 <= Len(t) /\ t[e] = "." /\ t[e + 1] \in Digits
    THEN PathEnd(t, RunEnd(t, Digits, e + 1)) ELSE e

\* \b after a digit
AtWordEnd(t, e) == e > Len(t) \/ ~IsWordChar(t[e])

\* extract_kes_code(value): KES_CODE_RE.match(value), ^\s*(?P<code>\d+(?:\.\d+)*)\b;
\* when no word ends after the longest path the last component is given
\* back; None: no match
extract_kes_code(value) ==
    LET start == RunEnd(value, StripChars, 1)
        first == RunEnd(value, Digits, start)
        full == PathEnd(value, first)
        dots == {k \in first..(full - 1) : value[k] = "."}
        last == CHOOSE k \in dots : \A j \in dots : j <= k
    IN  IF first = start THEN None
        ELSE IF AtWordEnd(value, full) THEN Some(SubSeq(value, start, full - 1))
        ELSE IF dots # {} THEN Some(SubSeq(value, start, last - 1))
        ELSE None

\* kes_text_by_code.get(code): the text, None when the code is not a key
TableGet(table, code) ==
    IF \E k \in 1..Len(table) : table[k][1] = code
    THEN Some(table[CHOOSE k \in 1..Len(table) : table[k][1] = code][2])
    ELSE None

\* kes_text_by_code[code] = item
TableSet(table, code, item) ==
    IF TableGet(table, code) = None THEN Append(table, <<code, item>>)
    ELSE [k \in 1..Len(table) |-> IF table[k][1] = code THEN <<code, item>> ELSE table[k]]

\* the text a differing occurrence leaves, were the last text seen kept
StoredTextLatest(existing, item) == item

\* lines 440-447: the text of the code after an occurrence of item
StoredText(existing, item) ==
    IF existing = None THEN item
    ELSE IF existing # Some(item) /\ Len(item) > Len(existing[1]) THEN item
    ELSE existing[1]

\* the code list, were every occurrence appended
CodesWithRepeats(list, found, code) == Append(list, code)

\* lines 450-452: if code not in seen: seen.add(code); codes.append(code)
CodesWith(list, found, code) == IF code \in found THEN list ELSE Append(list, code)

\* value.split(".")
RECURSIVE SplitDots(_)
SplitDots(value) ==
    LET j == Find(value, ".", 1) IN
    IF value = <<>> \/ j = 0 THEN <<value>>
    ELSE <<SubSeq(value, 1, j - 1)>> \o SplitDots(From(value, j + 1))

\* code_sort_key(value): int(part) of every part (a part of a code is digits)
code_sort_key(value) == [k \in 1..Len(SplitDots(value)) |-> Decimal(SplitDots(value)[k])]

\* a < b on tuples of integers
KeyLess(a, b) ==
    \E k \in 1..(Len(a) + 1) :
        /\ \A j \in 1..(k - 1) : j <= Len(b) /\ a[j] = b[j]
        /\ \/ k = Len(a) + 1 /\ Len(b) > Len(a)
           \/ k <= Len(a) /\ k <= Len(b) /\ a[k] < b[k]

\* list.sort(key=...): the sort is stable
RECURSIVE SortItems(_, _)
SortItems(items, sorted) ==
    IF items = <<>> THEN sorted
    ELSE LET item == Head(items)
             before == {k \in 1..Len(sorted) :
                          ~KeyLess(code_sort_key(item.id), code_sort_key(sorted[k].id))}
             n == IF before = {} THEN 0 ELSE CHOOSE k \in before : \A j \in before : j <= k
         IN  SortItems(Tail(items),
                       SubSeq(sorted, 1, n) \o <<item>> \o SubSeq(sorted, n + 1, Len(sorted)))

\* lines 474-478: kes_items, sorted
KesItems(table) ==
    SortItems([k \in 1..Len(table) |->
                  [id |-> table[k][1], text |-> table[k][2],
                   section |-> Decimal(SplitDots(table[k][1])[1])]], <<>>)

KesEntries ==
    { JStr(<<"1", ".", "2", " ", "a">>),
      JStr(<<" ", "1", ".", "2", " ", "a", "b">>),
      JStr(<<"1", ".", "2", " ", "b">>),
      JStr(<<"0", "2", ".", "1", "a">>),
      JStr(<<"x">>),
      JStr(<<" ">>),
      JNull }

InitKes ==
    /\ pc = "rows"
    /\ row = NoRow
    /\ kes_text_by_code = <<>>
    /\ codes = <<>>
    /\ seen = {}
    /\ number_map = {}
    /\ internal_id = <<>>
    /\ text = <<>>
    /\ task_number = None
    /\ italic_vars = <<"N", "R">>
    /\ IdleSplit
    /\ IdleMerge
    /\ IdleNormalize
    /\ out = <<>>
    /\ IdleClean

\* row = json.loads(line): a task whose meta holds a list of entries;
\* codes = [], seen = set()
KesRow ==
    /\ pc = "rows"
    /\ stats.rows < MaxTasks
    /\ \E list \in StringsUpTo(KesEntries, MaxItems) :
         row' = [row EXCEPT !.kes = list, !.i = 1]
    /\ codes' = <<>>
    /\ seen' = {}
    /\ pc' = "kes"
    /\ UNCHANGED <<htmlVars, textVars, number_map, internal_id, kes_text_by_code>>

\* the body of for item in raw_kes, for the item at row.i
KesItem ==
    /\ pc = "kes"
    /\ row.i <= Len(row.kes)
    /\ LET entry == row.kes[row.i]
           item == StripHtml(entry.s)
           code == extract_kes_code(item)
           existing == TableGet(kes_text_by_code, code[1])
       IN  IF entry.kind # "str"
           THEN /\ row' = [row EXCEPT !.i = @ + 1]
                /\ UNCHANGED <<stats, kes_text_by_code, seen, codes>>
           ELSE IF item = <<>>
           THEN /\ row' = [row EXCEPT !.i = @ + 1, !.read = @ \cup {item}]
                /\ UNCHANGED <<stats, kes_text_by_code, seen, codes>>
           ELSE IF code = None
           THEN /\ row' = [row EXCEPT !.i = @ + 1, !.read = @ \cup {item}]
                /\ stats' = Counted(stats, "kes_invalid_items", 1)
                /\ UNCHANGED <<kes_text_by_code, seen, codes>>
           ELSE /\ row' = [row EXCEPT !.i = @ + 1, !.read = @ \cup {item}]
                /\ kes_text_by_code' =
                     IF existing # Some(StoredText(existing, item))
                     THEN TableSet(kes_text_by_code, code[1], StoredText(existing, item))
                     ELSE kes_text_by_code
                /\ stats' = IF existing # None /\ existing # Some(item)
                            THEN Counted(stats, "kes_conflicts", 1) ELSE stats
                /\ seen' = seen \cup {code[1]}
                /\ codes' = CodesWith(codes, seen, code[1])
    /\ UNCHANGED <<pc, textVars, number_map, internal_id, raw_html, root, notice, cleaned, run>>

\* meta["KES"] = codes, and the rest of the body of the loop over the tasks
\* for a task without question_html, question_text and attachments
KesRowDone ==
    /\ pc = "kes"
    /\ row.i > Len(row.kes)
    /\ row' = [row EXCEPT !.kes = codes, !.i = 1]
    /\ stats' = Counted(stats, "rows", 1)
    /\ pc' = "rows"
    /\ UNCHANGED <<raw_html, root, notice, cleaned, run, textVars, number_map, internal_id, kes_text_by_code, codes, seen>>

\* lines 474-491: the input is read, the reference table is written
KesWrite ==
    /\ pc = "rows"
    /\ out' = KesItems(kes_text_by_code)
    /\ stats' = Counted(stats, "kes_items_written", Len(kes_text_by_code))
    /\ pc' = "written"
    /\ UNCHANGED <<jobVars, raw_html, root, notice, cleaned, run, text, task_number, italic_vars, sp, prev, merged,
                   md_lines, nm>>

NextKes == KesRow \/ KesItem \/ KesRowDone \/ KesWrite

SpecKes == InitKes /\ [][NextKes]_vars

\* the texts read so far whose identifier is code
SeenTexts(code) == {t \in row.read : extract_kes_code(t) = Some(code)}

\* the leading integer of an identifier
LeadingInteger(id) == Decimal(SubSeq(id, 1, RunEnd(id, Digits, 1) - 1))

\* the table holds one text per identifier read, a text seen for it, and no
\* text seen for it is longer
TableOfLongest ==
    /\ \A k, j \in 1..Len(kes_text_by_code) :
         kes_text_by_code[k][1] = kes_text_by_code[j][1] => k = j
    /\ \A t \in row.read :
         extract_kes_code(t) # None =>
           \E k \in 1..Len(kes_text_by_code) : Some(kes_text_by_code[k][1]) = extract_kes_code(t)
    /\ \A k \in 1..Len(kes_text_by_code) :
         /\ kes_text_by_code[k][2] \in SeenTexts(kes_text_by_code[k][1])
         /\ \A t \in SeenTexts(kes_text_by_code[k][1]) : Len(t) <= Len(kes_text_by_code[k][2])

\* the table written has the entries of the table, each with its section
SectionsWritten ==
    pc = "written" =>
      /\ Len(out) = Len(kes_text_by_code)
      /\ \A k \in 1..Len(kes_text_by_code) :
           \E j \in 1..Len(out) :
             /\ out[j].id = kes_text_by_code[k][1]
             /\ out[j].text = kes_text_by_code[k][2]
      /\ \A j \in 1..Len(out) : out[j].section = LeadingInteger(out[j].id)

\* an occurrence of a recognized entry counts one conflict when a text is
\* stored for its identifier and differs from it, none otherwise, and the
\* loop goes on to the next entry
ConflictCounted ==
    (pc = "kes" /\ row.i <= Len(row.kes) /\ row.kes[row.i].kind = "str"
       /\ extract_kes_code(StripHtml(row.kes[row.i].s)) # None) =>
      LET item == StripHtml(row.kes[row.i].s)
          stored == TableGet(kes_text_by_code, extract_kes_code(item)[1])
      IN  /\ stats'.kes_conflicts =
               stats.kes_conflicts + (IF stored # None /\ stored[1] # item THEN 1 ELSE 0)
          /\ pc' = "kes"
          /\ row'.i = row.i + 1

\* C17: after any sequence of classification entries the reference table
\* holds exactly one text per identifier, one of the texts seen for it and
\* none seen for it is longer; every occurrence whose text differs from the
\* stored text adds one to kes_conflicts and the loop goes on; the section of
\* an entry written is the leading integer of its identifier.
ReferenceTableRule ==
    /\ [](TableOfLongest /\ SectionsWritten)
    /\ [][ConflictCounted]_vars

\* two conflicts were counted, the longer text replaced the first one, and
\* the table was written with an identifier of section 2
ReferenceTableRuleWitness ==
    /\ pc = "written"
    /\ stats.kes_conflicts >= 2
    /\ \E j \in 1..Len(out) :
         out[j].id = <<"1", ".", "2">> /\ out[j].text = <<"1", ".", "2", " ", "a", "b">>
    /\ \E j \in 1..Len(out) : out[j].section = 2

\* the entry does not start with a dot-separated numeric path: it is not a
\* string, or the first character after its leading blanks is not a digit
NoNumericPath(entry) ==
    \/ entry.kind # "str"
    \/ StripHtml(entry.s) = <<>>
    \/ StripHtml(entry.s)[1] \notin Digits

\* the elements of a list, each once, in the order of first occurrence
RECURSIVE FirstOccurrences(_)
FirstOccurrences(list) ==
    IF list = <<>> THEN <<>>
    ELSE LET before == FirstOccurrences(SubSeq(list, 1, Len(list) - 1))
             x == list[Len(list)]
         IN  IF \E k \in 1..Len(before) : before[k] = x THEN before ELSE Append(before, x)

\* the codes recognized in a list of entries, one per recognized entry
RECURSIVE RecognizedCodes(_)
RecognizedCodes(list) ==
    IF list = <<>> THEN <<>>
    ELSE LET entry == Head(list)
             code == IF entry.kind = "str" THEN extract_kes_code(StripHtml(entry.s)) ELSE None
         IN  code \o RecognizedCodes(Tail(list))

\* the step on the entry at row.i adds nothing to the table and to the code
\* list, counts one invalid item and goes on to the next entry
SkippedAndCounted ==
    /\ kes_text_by_code' = kes_text_by_code
    /\ codes' = codes
    /\ stats'.kes_invalid_items = stats.kes_invalid_items + 1
    /\ pc' = "kes"
    /\ row'.i = row.i + 1

\* the code list of the task holds the codes recognized so far, each once,
\* in the order of first occurrence
CodeListInOrder ==
    pc = "kes" => codes = FirstOccurrences(RecognizedCodes(SubSeq(row.kes, 1, row.i - 1)))

\* C18 as stated: every entry that does not start with a dot-separated
\* numeric path adds nothing to the table and to the code list of the task
\* and adds one to kes_invalid_items, and the loop goes on; the code list
\* holds each recognized code once, in the order of first occurrence.
UnrecognizedEntryCounted ==
    /\ [][(pc = "kes" /\ row.i <= Len(row.kes) /\ NoNumericPath(row.kes[row.i]))
            => SkippedAndCounted]_vars
    /\ []CodeListInOrder

\* C18, amended: the same for every entry that is a string with a character
\* other than blanks; a blank string and a value that is not a string are
\* skipped and not counted.
UnrecognizedTextCounted ==
    /\ [][(pc = "kes" /\ row.i <= Len(row.kes) /\ NoNumericPath(row.kes[row.i]))
            => IF row.kes[row.i].kind = "str" /\ StripHtml(row.kes[row.i].s) # <<>>
               THEN SkippedAndCounted
               ELSE /\ UNCHANGED <<kes_text_by_code, codes, stats, pc>>
                    /\ row'.i = row.i + 1]_vars
    /\ []CodeListInOrder

\* the loop over the entries of the second task is over: an unrecognized
\* text was counted and the list holds two codes, in the order of the task
UnrecognizedTextCountedWitness ==
    /\ pc = "kes"
    /\ row.i > Len(row.kes)
    /\ stats.rows = 1
    /\ stats.kes_invalid_items = 1
    /\ codes = << <<"0", "2">>, <<"1", ".", "2">> >>

(***************************************************************************)
(* transform_tasks.main, lines 455-472: a task without classification      *)
(* entries is cleaned, rendered and flagged.                               *)
(***************************************************************************)
NoticeLongText ==
    TextNode(<<"Zadanie", " ", "vypolnyaetsya", " ", "s", NBSP, "ispolzovaniem", " ",
               "prilagaemyh", " ", "k", " ", "zadaniyu", "\n", "fajlov", " ", ".">>)

Bold(kids) == Element("b", {}, kids)

AttachPieces ==
    { <<X>>,
      <<Element("p", {}, <<NoticeText>>)>>,
      <<Element("table", {}, <<Row(<<X>>)>>)>>,
      <<Element("table", {}, <<Row(<<NoticeText>>), Row(<<X>>)>>)>>,
      <<Element("table", {}, <<Row(<<NoticeLongText>>), Row(<<X>>)>>)>>,
      <<Element("table", {}, <<Row(<<NoticeText, Bold(<<X>>)>>), Row(<<X>>)>>)>>,
      <<Row(<<Bold(<<X>>), NoticeText>>)>>,
      <<Element("tbody", {}, <<Row(<<NoticeText>>), Row(<<X>>)>>)>>,
      <<Element("table", {},
                <<Row(<<NoticeText, Element("img", {<<"src", <<"i">>>>}, <<>>)>>), Row(<<X>>)>>)>>,
      <<Element("table", {}, <<Row(<<Bold(<<NoticeText>>), Bold(<<NoticeText>>)>>), Row(<<X>>)>>)>>,
      <<Element("table", {},
                <<Element("tr", {},
                          <<Element("td", {}, <<TextNode(<<"Zadanie", " ", "vypolnyaetsya">>)>>),
                            Element("td", {}, <<TextNode(<<"s", " ", "ispolzovaniem", " ",
                                                           "prilagaemyh", " ", "fajlov", ".">>)>>)>>),
                  Row(<<X>>)>>)>>,
      <<Element("table", {},
                <<Row(<<Element("table", {}, <<Row(<<NoticeText>>), Row(<<X>>)>>)>>)>>)>>,
      <<Element("table", {}, <<Row(<<NoticeText>>), Row(<<NoticeText, Bold(<<X>>)>>)>>)>> }

\* row.get("question_text")
QuestionTexts == {<<>>, <<"x">>, <<"x", " ">> \o NoticeText.s \o <<" ", "y">>}

\* row.get("attachments")
AttachmentLists == {<<>>, << <<"a", ".zip">> >>}

InitAttach ==
    /\ pc = "clean"
    /\ \E piece \in AttachPieces : raw_html = Serialize(piece)
    /\ root = <<>>
    /\ stats = NoStats
    /\ notice = FALSE
    /\ cleaned = <<>>
    /\ run = 1
    /\ \E question_text \in QuestionTexts, attachments \in AttachmentLists :
         row = [NoRow EXCEPT !.question_text = question_text, !.attachments = attachments]
    /\ number_map = {}
    /\ internal_id = <<>>
    /\ kes_text_by_code = <<>>
    /\ codes = <<>>
    /\ seen = {}
    /\ text = <<>>
    /\ task_number = None
    /\ italic_vars = <<"N", "R">>
    /\ IdleSplit
    /\ IdleMerge
    /\ IdleNormalize
    /\ out = <<>>

\* lines 457-472, after clean_html returned: question_md, the flag, the
\* plain text without the notice
RowOutput ==
    /\ pc = "cleaned"
    /\ out' = html_to_markdown(cleaned)
    /\ LET has_attachments == row.attachments # <<>>
           banner_removed == notice
           notice_in_text == NoticeFound(row.question_text)
       IN  row' = [row EXCEPT
                     !.requires_attachments = has_attachments \/ banner_removed \/ notice_in_text,
                     !.question_text =
                        IF banner_removed \/ notice_in_text
                        THEN CollapseSpaces(NoticeRemoved(row.question_text, 1)) ELSE @]
    /\ stats' = Counted(stats, "rows", 1)
    /\ pc' = "row"
    /\ UNCHANGED <<raw_html, root, notice, cleaned, run, number_map, internal_id, kes_text_by_code,
                   codes, seen, text, task_number, italic_vars, sp, prev, merged, md_lines, nm>>

NextAttach ==
    \/ ParseHtml \/ CleanTagsPass \/ NbspPass \/ ScriptsPass \/ MathPass \/ AnchorsPass
    \/ NoticePass \/ LinkRowsPass \/ EmptyPass \/ TablesPass
    \/ UnwrapWrapper \/ CleanReturn
    \/ RowOutput

SpecAttach == InitAttach /\ [][NextAttach]_vars

\* the words of a text: what is between its white space
WordsOf(t) == SelectSeq(t, LAMBDA c : c \notin StripChars)

\* the words of the text of a row of an HTML string
RowWords(tr) == WordsOf(TextOf(Serialize(<<tr>>)))

\* the banner sentence, without and with "k zadaniyu"
BannerSentences ==
    {NoticeHead \o <<NoticeLast, ".">>, NoticeHead \o NoticeOptional \o <<NoticeLast, ".">>}

\* the words hold the banner sentence
HoldsBanner(words) ==
    \E i \in 1..Len(words), sentence \in BannerSentences :
        /\ i + Len(sentence) - 1 <= Len(words)
        /\ SubSeq(words, i, i + Len(sentence) - 1) = sentence

\* the words are the banner sentence and nothing else (the sentence may be
\* there more than once)
RECURSIVE IsBannerOnly(_)
IsBannerOnly(words) ==
    \E sentence \in BannerSentences :
        /\ Len(sentence) <= Len(words)
        /\ SubSeq(words, 1, Len(sentence)) = sentence
        /\ \/ Len(sentence) = Len(words)
           \/ IsBannerOnly(SubSeq(words, Len(sentence) + 1, Len(words)))

\* the rows of an HTML string
RowsOf(html) == FindAll(ParseFragment(html), {"tr"})

\* part is in whole, in one piece
IsPieceOf(part, whole) ==
    \E i \in 1..(Len(whole) - Len(part) + 1) : SubSeq(whole, i, i + Len(part) - 1) = part

\* C19: requires_attachments is true exactly when clean_html removed a table
\* row whose whole text is the banner sentence, or the plain text of the task
\* holds the banner sentence, or the attachment list is not empty; a row with
\* the banner and other text is not removed and does not set the flag.
RequiresAttachmentFlag ==
    [][(pc = "cleaned" /\ pc' = "row") =>
         LET given == RowsOf(raw_html)
             banner_rows == {k \in 1..Len(given) : IsBannerOnly(RowWords(given[k]))}
             mixed_rows == {k \in 1..Len(given) :
                              /\ HoldsBanner(RowWords(given[k]))
                              /\ ~IsBannerOnly(RowWords(given[k]))
                              /\ \A j \in banner_rows : ~IsPieceOf(RowWords(given[j]), RowWords(given[k]))}
             kept == RowsOf(cleaned)
         IN  /\ row'.requires_attachments <=>
                  \/ banner_rows # {}
                  \/ HoldsBanner(WordsOf(row.question_text))
                  \/ row.attachments # <<>>
             /\ \A k \in 1..Len(kept) : ~IsBannerOnly(RowWords(kept[k]))
             /\ \A k \in mixed_rows : IsPieceOf(RowWords(given[k]), WordsOf(TextOf(cleaned)))]_vars

\* a row that was only the banner was removed and set the flag by itself,
\* and a row with the banner and other text is still there
RequiresAttachmentFlagWitness ==
    /\ pc = "row"
    /\ row.requires_attachments
    /\ row.attachments = <<>>
    /\ row.question_text = <<"x">>
    /\ notice
    /\ stats.attachments_notice_removed = 1
    /\ HoldsBanner(WordsOf(TextOf(cleaned)))

\* the banner is only in a row with other text: the flag is not set
BannerWithTextWitness ==
    /\ pc = "row"
    /\ ~row.requires_attachments
    /\ HoldsBanner(WordsOf(TextOf(raw_html)))
    /\ \E k \in 1..Len(RowsOf(raw_html)) : HoldsBanner(RowWords(RowsOf(raw_html)[k]))

(***************************************************************************)
(* SpecOperands: _merge_equals_in_text on texts in which a dollar or a     *)
(* number next to an equals sign may lie inside a formula.                 *)
(***************************************************************************)
OperandAlphabet == {<<"$">>, <<"1", "=">>, <<"$", "a", "$">>, <<"=">>, <<"$", "$">>, <<" ">>}

InitOperands ==
    /\ pc = "merge"
    /\ text \in Texts(OperandAlphabet, MaxLen)
    /\ task_number = None
    /\ italic_vars = <<"N", "R">>
    /\ IdleSplit
    /\ IdleMerge
    /\ IdleNormalize
    /\ out = <<>>
    /\ IdleClean
    /\ IdleJob

SpecOperands == InitOperands /\ [][NextMerge]_vars

\* the characters of the segments of one kind, without the white space, the
\* dollars, and the digits and equals signs a merge may move into a formula
RECURSIVE OtherChars(_, _)
OtherChars(segments, is_math) ==
    IF segments = <<>> THEN <<>>
    ELSE (IF Head(segments).math = is_math
          THEN SelectSeq(Head(segments).str,
                         LAMBDA c : c \notin Whitespace \cup Digits \cup {"$", "="})
          ELSE <<>>)
         \o OtherChars(Tail(segments), is_math)

\* segments k.. begin with an equation whose operands are whole spans of the
\* segmentation and integers of a plain run
SpanEquationAt(segments, k) ==
    LET n == Len(segments)
        IsSpan(j) == j <= n /\ segments[j].math /\ IsFormulaOperand(segments[j].str)
        IsPlain(j) == j <= n /\ ~segments[j].math
    IN  \/ /\ IsSpan(k) /\ IsPlain(k + 1) /\ IsSpan(k + 2)
           /\ EqualsEnd(segments[k + 1].str, 1) = Len(segments[k + 1].str) + 1
        \/ /\ IsPlain(k) /\ IsSpan(k + 1)
           /\ \E i \in 1..Len(segments[k].str) :
                /\ NumOperandEnd(segments[k].str, i) # 0
                /\ EqualsEnd(segments[k].str, NumOperandEnd(segments[k].str, i))
                     = Len(segments[k].str) + 1
        \/ /\ IsSpan(k) /\ IsPlain(k + 1)
           /\ EqualsEnd(segments[k + 1].str, 1) # 0
           /\ NumOperandEnd(segments[k + 1].str, EqualsEnd(segments[k + 1].str, 1)) # 0

\* C21: for a text with balanced delimiters _merge_equals_in_text merges
\* only whole math spans of the segmentation of _split_by_math_spans and
\* integers of plain runs: a text without such an equation is returned as it
\* is, every character of a formula is in a formula of the result, and every
\* plain character other than the merged integers and equals signs is plain
\* in the result.
MergeKeepsSpans ==
    (pc = "done" /\ SplitEndMode(text, SplitStart) = "text") =>
        LET before == _split_by_math_spans(text)
            after == _split_by_math_spans(out)
        IN  /\ (\A k \in 1..Len(before) : ~SpanEquationAt(before, k)) => out = text
            /\ OtherChars(after, TRUE) = OtherChars(before, TRUE)
            /\ OtherChars(after, FALSE) = OtherChars(before, FALSE)

\* the same for the character classes alone: what is plain stays plain
MergeKeepsPlainText ==
    (pc = "done" /\ SplitEndMode(text, SplitStart) = "text") =>
        OtherChars(_split_by_math_spans(out), FALSE) = OtherChars(_split_by_math_spans(text), FALSE)

\* the tags of the removable-if-empty set
PrunedTags == {"p", "div", "span", "font", "b", "i", "strong", "em", "u", "sup", "sub"}

\* the element has no element child and no text other than white space
HasNoContent(n) ==
    \A k \in 1..Len(n.kids) :
        /\ IsText(n.kids[k])
        /\ \A j \in 1..Len(n.kids[k].s) : n.kids[k].s[j] \in StripChars

\* C22: in the tree clean_html returns there is no p, div, span, font, b, i,
\* strong, em, u, sup or sub element without an element child and without
\* text other than white space, also when the element lost its content to an
\* earlier rule or to the pruning itself.
NoEmptyElementLeft ==
    pc = "cleaned" =>
        \A k \in 1..Len(FindAll(root, PrunedTags)) : ~HasNoContent(FindAll(root, PrunedTags)[k])

\* the pruning pass removes as many elements as are empty when it begins,
\* counts them, and removes no text other than white space
EmptyElementsPruned ==
    [][pc = "empty" =>
         LET found == FindAll(root, PrunedTags)
             empty == {k \in 1..Len(found) : HasNoContent(found[k])}
         IN  /\ Len(FindAll(root', PrunedTags)) = Len(found) - Cardinality(empty)
             /\ stats'.empty_tag_removed = stats.empty_tag_removed + Cardinality(empty)
             /\ WordsOf(TextOf(Serialize(root'))) = WordsOf(TextOf(Serialize(root)))]_vars

(***************************************************************************)
(* SpecLists: html_to_markdown on nested lists.                            *)
(***************************************************************************)
\* the deepest nesting of a list inside the outermost list
MaxDepth == 2

\* the text of the items of a list at depth 0, 1, ...
DepthLabels == <<"a", "b", "c", "x", "y">>

\* a list of the kind kinds[1] at depth d whose first item holds its label
\* and the list of the kinds that follow; twice: a second item follows
RECURSIVE NestedList(_, _, _)
NestedList(kinds, d, twice) ==
    Element(Head(kinds), {},
            <<Element("li", {},
                      <<TextNode(<<DepthLabels[d + 1]>>)>>
                      \o (IF Len(kinds) > 1 THEN <<NestedList(Tail(kinds), d + 1, twice)>>
                          ELSE <<>>))>>
            \o (IF twice THEN <<Element("li", {}, <<TextNode(<<DepthLabels[d + 1]>>)>>)>>
                ELSE <<>>))

ListInputs ==
    {Serialize(<<NestedList(kinds, 0, twice)>>) :
        kinds \in StringsUpTo({"ul", "ol"}, MaxDepth + 1) \ {<<>>}, twice \in BOOLEAN}

InitLists ==
    /\ pc = "cleaned"
    /\ raw_html = <<>>
    /\ cleaned \in ListInputs
    /\ run = 0
    /\ root = <<>>
    /\ stats = NoStats
    /\ notice = FALSE
    /\ text = <<>>
    /\ task_number = None
    /\ italic_vars = <<"N", "R">>
    /\ IdleJob
    /\ IdleSplit
    /\ IdleMerge
    /\ IdleNormalize
    /\ out = <<>>

NextLists == RenderParse \/ RenderTree \/ RenderCollapse \/ RenderReturn

SpecLists == InitLists /\ [][NextLists]_vars

\* the line is spaces, a marker (- or n.), a space and the label of depth d
IsItemLine(line, d) ==
    LET i == RunEnd(line, {" "}, 1)
        rest == From(line, i)
    IN  \/ rest = <<"-", " ", DepthLabels[d + 1]>>
        \/ /\ Len(rest) = 4
           /\ rest[1] \in {"1", "2"}
           /\ SubSeq(rest, 2, 4) = <<".", " ", DepthLabels[d + 1]>>

\* the number of spaces a line starts with
LeadingSpaces(line) == RunEnd(line, {" "}, 1) - 1

\* C23: in the Markdown of nested ul/ol lists the marker of an item at
\* depth d is indented by d times three spaces.
NestedListIndent ==
    pc = "rendered" =>
        \A k \in 1..Len(SplitLines(out)) : \A d \in 0..MaxDepth :
            IsItemLine(SplitLines(out)[k], d) => LeadingSpaces(SplitLines(out)[k]) = 3 * d

\* what the code does: the marker of an item at depth d is indented by
\* 3d spaces by render_list and by 3(j + 1) more by the item of each ancestor
\* list, of depth j = 0 .. d - 1
NestedListIndentDoubled ==
    pc = "rendered" =>
        /\ \A k \in 1..Len(SplitLines(out)) : \A d \in 0..MaxDepth :
             IsItemLine(SplitLines(out)[k], d)
               => LeadingSpaces(SplitLines(out)[k]) = 6 * d + 3 * ((d * (d - 1)) \div 2)
        /\ \A k \in 1..Len(SplitLines(out)) :
             SplitLines(out)[k] = <<>> \/ \E d \in 0..MaxDepth : IsItemLine(SplitLines(out)[k], d)

\* a list inside a list inside a list has been rendered
NestedListIndentDoubledWitness ==
    /\ pc = "rendered"
    /\ \E k \in 1..Len(SplitLines(out)) : IsItemLine(SplitLines(out)[k], 2)

(***************************************************************************)
(* SpecSplice: convert_sub_sup_to_tex on a base followed by one or two     *)
(* scripts.                                                                *)
(***************************************************************************)
SpliceFragments ==
    {pre \o base \o first \o gap \o second \o post :
        pre \in {<<>>, CharTokens(<<"x", " ">>),
                 <<StartTag("b", {}), CharToken("y"), EndTag("b")>>},
        base \in {<<>>, CharTokens(<<"a">>), CharTokens(<<"a", " ">>),
                  CharTokens(<<"$", "x", "$">>)},
        first \in {<<>>, <<StartTag("sub", {}), CharToken("1"), EndTag("sub")>>,
                   <<StartTag("sup", {}), CharToken("2"), EndTag("sup")>>},
        gap \in {<<>>, CharTokens(<<" ">>)},
        second \in {<<StartTag("sub", {}), CharToken("1"), EndTag("sub")>>,
                    <<StartTag("sup", {}), CharToken("2"), EndTag("sup")>>},
        post \in {<<>>, CharTokens(<<".">>)}}

InitSplice ==
    /\ pc = "convert"
    /\ raw_html \in SpliceFragments
    /\ root = <<>>
    /\ stats = NoStats
    /\ notice = FALSE
    /\ cleaned = <<>>
    /\ run = 0
    /\ text = <<>>
    /\ task_number = None
    /\ italic_vars = <<"N", "R">>
    /\ IdleJob
    /\ IdleSplit
    /\ IdleMerge
    /\ IdleNormalize
    /\ out = <<>>

SpecSplice == InitSplice /\ [][NextSubSup]_vars

\* the text of nodes i..j of a fragment
TextBetween(nodes, i, j) == TextOf(Serialize(SubSeq(nodes, i, j)))

\* element k is the only script of the fragment and the nearest content in
\* front of it is a string that is, trimmed, one complete span: the script
\* goes in front of the closing dollar of that span
SplicedIntoSpan(nodes, k, result) ==
    LET j == NearestBefore(nodes, k)
        span == StripHtml(nodes[j].s)
        script == _as_tex_script(nodes[k].tag, GetTextStripped(nodes[k].kids))
    IN  (j # 0 /\ IsText(nodes[j]) /\ IsMathSpan(span)) =>
          WordsOf(result)
            = WordsOf(TextBetween(nodes, 1, j - 1) \o SubSeq(span, 1, Len(span) - 1) \o script
                      \o <<"$">> \o TextBetween(nodes, k + 1, Len(nodes)))

\* the scripts of the fragment are a sub at k and a sup at m behind it, the
\* nearest content in front of the sub is a string that ends with a base
\* token: base, sub and sup make one span
BaseSubSup(nodes, k, m, result) ==
    LET j == NearestBefore(nodes, k)
        sub == _as_tex_script("sub", GetTextStripped(nodes[k].kids))
        sup == _as_tex_script("sup", GetTextStripped(nodes[m].kids))
    IN  (/\ nodes[k].tag = "sub" /\ nodes[m].tag = "sup" /\ k < m
         /\ j # 0 /\ IsText(nodes[j]) /\ BaseStart(nodes[j].s) # 0) =>
          WordsOf(result)
            = WordsOf(TextBetween(nodes, 1, j - 1)
                      \o SubSeq(nodes[j].s, 1, BaseStart(nodes[j].s) - 1)
                      \o <<"$">> \o BaseToken(nodes[j].s) \o sub \o sup \o <<"$">>
                      \o TextBetween(nodes, m + 1, Len(nodes)))

\* C24: when the nearest non-whitespace text in front of a non-empty sub or
\* sup element is, trimmed, exactly one complete span, the script is put in
\* front of the closing dollar of that span and no second span is made; so a
\* base followed by a sub and then a sup gives the one span $base_{a}^{b}$.
ScriptSplice ==
    pc = "converted" =>
        LET nodes == ParseFragment(raw_html) IN
        /\ \A k \in ScriptsOf(nodes) :
             ScriptsOf(nodes) = {k} => SplicedIntoSpan(nodes, k, TextOf(cleaned))
        /\ \A k, m \in ScriptsOf(nodes) :
             ScriptsOf(nodes) = {k, m} => BaseSubSup(nodes, k, m, TextOf(cleaned))

\* the first half alone: a script behind a string that is one span
ScriptSpliceIntoSpan ==
    pc = "converted" =>
        \A k \in ScriptsOf(ParseFragment(raw_html)) :
            ScriptsOf(ParseFragment(raw_html)) = {k}
            => SplicedIntoSpan(ParseFragment(raw_html), k, TextOf(cleaned))

\* $x$ followed by a sup has become $x^{2}$
ScriptSpliceIntoSpanWitness ==
    /\ pc = "converted"
    /\ raw_html = CharTokens(<<"$", "x", "$">>)
                  \o <<StartTag("sup", {}), CharToken("2"), EndTag("sup")>>
    /\ TextOf(cleaned) = <<"$", "x", "^", "{", "2", "}", "$">>

\* the second half on the fragments where the base is a string of its own
BaseSubSupAlone ==
    pc = "converted" =>
        LET nodes == ParseFragment(raw_html) IN
        \A k, m \in ScriptsOf(nodes) :
            (ScriptsOf(nodes) = {k, m} /\ NearestBefore(nodes, k) # 0
               /\ IsText(nodes[NearestBefore(nodes, k)])
               /\ BaseStart(nodes[NearestBefore(nodes, k)].s) = 1)
            => BaseSubSup(nodes, k, m, TextOf(cleaned))

(***************************************************************************)
(* SpecUnwrap: clean_html on fragments with decorative elements and with   *)
(* div elements around tables.                                             *)
(***************************************************************************)
DecorPieces ==
    { Element("span", {}, <<X>>),
      Element("font", {}, <<Element("span", {}, <<X>>)>>),
      Element("o:p", {}, <<X>>),
      Element("div", {}, <<Element("div", {}, <<X>>)>>),
      Element("div", {}, <<Element("table", {}, <<Row(<<X>>)>>)>>),
      Element("div", {}, <<Element("span", {}, <<X>>), Element("table", {}, <<Row(<<X>>)>>)>>),
      Element("div", {}, <<Element("table", {}, <<Row(<<>>)>>)>>),
      Element("div", {}, <<Element("table", {}, <<Row(<<NoticeText>>)>>)>>),
      Element("span", {}, <<Element("div", {}, <<Element("table", {}, <<Row(<<X>>)>>)>>)>>),
      Element("table", {}, <<Row(<<Element("div", {}, <<Element("font", {}, <<X>>)>>)>>)>>),
      Row(<<Element("span", {}, <<X>>)>>) }

UnwrapFragments == {Serialize(nodes) : nodes \in StringsUpTo(DecorPieces, 2) \ {<<>>}}

InitUnwrap ==
    /\ pc = "clean"
    /\ raw_html \in UnwrapFragments
    /\ root = <<>>
    /\ stats = NoStats
    /\ notice = FALSE
    /\ cleaned = <<>>
    /\ run = 1
    /\ text = <<>>
    /\ task_number = None
    /\ italic_vars = <<"N", "R">>
    /\ IdleJob
    /\ IdleSplit
    /\ IdleMerge
    /\ IdleNormalize
    /\ out = <<>>

SpecUnwrap == InitUnwrap /\ [][NextClean]_vars

\* no span, font or o:p element is in the tree, and every div of the tree
\* has a table inside
NoDecoration(nodes) ==
    /\ FindAll(nodes, {"span", "font", "o:p"}) = <<>>
    /\ \A k \in 1..Len(FindAll(nodes, {"div"})) :
         FindAll(FindAll(nodes, {"div"})[k].kids, {"table"}) # <<>>

\* C25: in the tree clean_html returns no span, font or o:p element is left,
\* and every div that is left has a table descendant.
DecorativeUnwrap == pc = "cleaned" => NoDecoration(root)

\* the same right after the loop over the tags (lines 233-245), and for the
\* span, font and o:p elements in the returned tree
DecorativeUnwrapAfterLoop ==
    /\ pc = "nbsp" => NoDecoration(root)
    /\ pc = "cleaned" => FindAll(root, {"span", "font", "o:p"}) = <<>>

\* a div around a table was kept and a span next to the table was unwrapped
DecorativeUnwrapAfterLoopWitness ==
    /\ pc = "cleaned"
    /\ run = 1
    /\ FindAll(ParseFragment(raw_html), {"span"}) # <<>>
    /\ FindAll(root, {"div"}) # <<>>
    /\ stats.empty_table_removed = 0


(***************************************************************************)
(* Groups of lettered items and the blank lines around them                *)
(***************************************************************************)
\* where the first paragraph that starts with a lettered item begins, or
\* Len(lines) + 1 when there is none
RECURSIVE FirstLettered(_, _)
FirstLettered(lines, k) ==
    LET start == SkipLines(lines, k, FALSE) IN
    IF start > Len(lines) THEN start
    ELSE IF LetterItemMatches(LStrip(lines[start])) THEN start
    ELSE FirstLettered(lines, SkipLines(lines, start, TRUE))

\* the lettered paragraphs that follow one another from line k on, with
\* nothing but blank lines between them
RECURSIVE GroupItems(_, _)
GroupItems(lines, k) ==
    LET start == SkipLines(lines, k, FALSE)
        end == SkipLines(lines, start, TRUE)
    IN  IF start > Len(lines) \/ ~LetterItemMatches(LStrip(lines[start])) THEN <<>>
        ELSE <<[first |-> start, last |-> end - 1]>> \o GroupItems(lines, end)

\* the line where item j of a group starts in the output, when the group
\* starts at line s and its items are one blank line apart
RECURSIVE ItemStart(_, _, _)
ItemStart(items, s, j) ==
    IF j = 1 THEN s
    ELSE ItemStart(items, s, j - 1) + (items[j - 1].last - items[j - 1].first + 1) + 1

\* the items of the group are in the output, one blank line apart
ItemsOneBlankApart(items, s, outl) ==
    \A j \in 1..Len(items) :
        LET p == ItemStart(items, s, j)
            n == items[j].last - items[j].first + 1
        IN  /\ p + n - 1 <= Len(outl)
            /\ \A k \in p..(p + n - 1) : ~IsBlank(outl[k])
            /\ j < Len(items) => (p + n <= Len(outl) /\ IsBlank(outl[p + n]))

\* exactly one blank line at line k
OneBlankAt(outl, k) ==
    /\ k <= Len(outl)
    /\ IsBlank(outl[k])
    /\ (k + 1 <= Len(outl) => ~IsBlank(outl[k + 1]))

\* the first group of the text is rendered with one blank line between its
\* items, and one blank line after it exactly when the source had one
GroupSeparators(lines, outl) ==
    LET s == FirstLettered(lines, 1)
        items == GroupItems(lines, s)
        after == items[Len(items)].last + 1
        outAfter == ItemStart(items, s, Len(items))
                        + (items[Len(items)].last - items[Len(items)].first + 1)
    IN  /\ ItemsOneBlankApart(items, s, outl)
        /\ (after <= Len(lines) /\ IsBlank(lines[after])) <=> OneBlankAt(outl, outAfter)
        /\ ~(after <= Len(lines) /\ IsBlank(lines[after])) =>
               (outAfter <= Len(outl) => ~IsBlank(outl[outAfter]))

\* C26: consecutive lettered paragraphs separated by any number of blank
\* lines form one group that ends at the first paragraph that is not
\* lettered or at the end of the text; in the output the items of a group
\* are exactly one blank line apart, and exactly one blank line follows the
\* group if and only if the source had at least one blank line after the
\* last item of the group.
LetteredGroupSeparators ==
    pc = "done" /\ FirstLettered(SplitLines(text), 1) <= Len(SplitLines(text)) =>
        GroupSeparators(SplitLines(text), SplitLines(out))

\* a paragraph follows the first group of the text
ParagraphAfterGroup(lines) ==
    LET items == GroupItems(lines, FirstLettered(lines, 1)) IN
    SkipLines(lines, items[Len(items)].last + 1, FALSE) <= Len(lines)

\* the same for the groups that a paragraph follows: there the rule holds
LetteredGroupSeparatorsInside ==
    (/\ pc = "done"
     /\ FirstLettered(SplitLines(text), 1) <= Len(SplitLines(text))
     /\ ParagraphAfterGroup(SplitLines(text)))
        => GroupSeparators(SplitLines(text), SplitLines(out))

\* a group of two items, two blank lines apart, two blank lines before the
\* paragraph that ends it
LetteredGroupSeparatorsInsideWitness ==
    /\ pc = "done"
    /\ text = <<"a", ")", " ", "x", "\n", "\n", "b", ")", "y", "\n", "\n", "t", "\n">>
    /\ out = <<"a", ")", " ", "x", "\n", "\n", "b", ")", " ", "y", "\n", "\n", "t", "\n">>


(***************************************************************************)
(* Texts without lettered items                                            *)
(***************************************************************************)
\* no paragraph of the text starts with a lettered item
NoLetteredParagraph(t) == FirstLettered(SplitLines(t), 1) > Len(SplitLines(t))

\* the text has more than one line and its last line is empty
EndsWithEmptyLine(t) ==
    Len(SplitLines(t)) >= 2 /\ SplitLines(t)[Len(SplitLines(t))] = <<>>

\* C27: for every text in which no paragraph starts with a lettered item,
\* normalize_letter_subpoints returns the text unchanged, including the
\* number of blank lines between the paragraphs and at the end of the text.
OtherTextUnchanged ==
    pc = "done" /\ NoLetteredParagraph(text) => out = text

\* what the function returns for these texts: the text itself, less its
\* last newline when its last line is empty
OtherTextButLastEmptyLine ==
    pc = "done" /\ NoLetteredParagraph(text) =>
        out = IF EndsWithEmptyLine(text) THEN SubSeq(text, 1, Len(text) - 1) ELSE text

\* two paragraphs two blank lines apart, ending without a blank line
OtherTextButLastEmptyLineWitness ==
    /\ pc = "done"
    /\ text = <<"t", "\n", "\n", "\n", "2", ".", " ", "t", "\n">>
    /\ out = text


(***************************************************************************)
(* The reference table and the order of the entries                        *)
(***************************************************************************)
\* lines 436-447 for the entries of a sequence, in the order of the sequence
RECURSIVE TableAfter(_, _)
TableAfter(items, table) ==
    IF items = <<>> THEN table
    ELSE LET item == Head(items)
             code == extract_kes_code(item)
         IN  IF item = <<>> \/ code = None THEN TableAfter(Tail(items), table)
             ELSE TableAfter(Tail(items),
                             TableSet(table, code[1],
                                      StoredText(TableGet(table, code[1]), item)))

\* the orders in which the texts of a set can be processed
Orders(texts) ==
    {o \in [1..Cardinality(texts) -> texts] :
        \A a, b \in 1..Cardinality(texts) : o[a] = o[b] => a = b}

\* the text stored for each identifier
TextByCode(table) == {table[k] : k \in 1..Len(table)}

\* the length of the text stored for each identifier
LengthByCode(table) == {<<table[k][1], Len(table[k][2])>> : k \in 1..Len(table)}

\* two different texts read for one identifier have the same length
EqualLengthConflict ==
    \E t, u \in row.read :
        /\ t # u
        /\ extract_kes_code(t) # None
        /\ extract_kes_code(t) = extract_kes_code(u)
        /\ Len(t) = Len(u)

\* C28: for every batch the reference table written by main, the text stored
\* for each identifier, is the same for every order in which the same
\* entries are processed.
ReferenceTableOrderIndependent ==
    pc = "written" =>
        \A o \in Orders(row.read) :
            TextByCode(TableAfter(o, <<>>)) = TextByCode(kes_text_by_code)

\* the table written is the table of the texts read, taken once each in
\* some order
ReferenceTableOfSomeOrder ==
    pc = "written" =>
        \E o \in Orders(row.read) :
            TextByCode(TableAfter(o, <<>>)) = TextByCode(kes_text_by_code)

\* the identifiers and the length of the text of each do not depend on the
\* order, and neither does the text when no two texts of one identifier
\* have the same length
ReferenceTableOrderUpToTies ==
    pc = "written" =>
        \A o \in Orders(row.read) :
            /\ LengthByCode(TableAfter(o, <<>>)) = LengthByCode(kes_text_by_code)
            /\ ~EqualLengthConflict =>
                   TextByCode(TableAfter(o, <<>>)) = TextByCode(kes_text_by_code)

\* a shorter and a longer text of one identifier were read, shorter first,
\* and another identifier
ReferenceTableOrderUpToTiesWitness ==
    /\ pc = "written"
    /\ ~EqualLengthConflict
    /\ Len(kes_text_by_code) = 2
    /\ kes_text_by_code[1] = <<<<"1", ".", "2">>, <<"1", ".", "2", " ", "a", "b">>>>
    /\ <<"1", ".", "2", " ", "a">> \in row.read
    /\ stats.kes_conflicts >= 1


(***************************************************************************)
(* SpecRewrap: convert_task5_numbers_to_math on texts with backslashes,    *)
(* and the function applied to its own output.                             *)
(***************************************************************************)
RewrapAlphabet == {<<"1">>, <<"\\">>, <<"$">>, <<"a">>, <<" ">>}

InitRewrap ==
    /\ pc = "wrap"
    /\ text \in Texts(RewrapAlphabet, MaxLen)
                  \cup UNION {Texts(alphabet, MaxLen - 1) : alphabet \in WrapAlphabets}
    /\ task_number = Some(5)
    /\ italic_vars = <<"N", "R">>
    /\ IdleSplit
    /\ IdleMerge
    /\ IdleNormalize
    /\ out = <<>>
    /\ IdleClean
    /\ IdleJob

SpecRewrap == InitRewrap /\ [][NextWrap]_vars

\* a digit follows a backslash
DigitAfterBackslash(t) ==
    \E k \in 1..(Len(t) - 1) : t[k] = "\\" /\ t[k + 1] \in Digits

\* C29: for every text, convert_task5_numbers_to_math applied to its own
\* output returns that output unchanged: a number wrapped once is not
\* wrapped again and no further token becomes wrappable.
NumericWrappingIdempotent ==
    pc = "done" => convert_task5_numbers_to_math(out) = out

\* the same for the texts in which no digit follows a backslash
NumericWrappingIdempotentUnescaped ==
    pc = "done" /\ ~DigitAfterBackslash(text) =>
        convert_task5_numbers_to_math(out) = out

\* a number was wrapped next to a backslash and a second pass leaves it
NumericWrappingIdempotentUnescapedWitness ==
    /\ pc = "done"
    /\ text = <<"1", "\\", " ", "1">>
    /\ out = <<"$", "1", "$", "\\", " ", "$", "1", "$">>
    /\ convert_task5_numbers_to_math(out) = out


(***************************************************************************)
(* SpecMath: clean_html on fragments with formulas, with text in leaf      *)
(* elements, in other elements and directly in the formula.                *)
(***************************************************************************)
DashLeaf == Element("m:mo", {}, <<TextNode(<<Dash>>)>>)

MathPieces ==
    { Element("m:math", {}, <<DashLeaf>>),
      Element("m:math", {}, <<Element("m:mi", {}, <<X>>)>>),
      Element("m:math", {}, <<DashLeaf, Element("m:mrow", {}, <<X>>)>>),
      Element("m:math", {}, <<X, DashLeaf>>),
      Element("m:math", {}, <<Element("m:mi", {}, <<X>>), DashLeaf>>),
      Element("math", {}, <<TextNode(<<" ">>),
                            Element("mo", {}, <<TextNode(<<" ", Dash, " ">>)>>)>>),
      Element("m:math", {}, <<Element("m:mrow", {}, <<DashLeaf>>)>>),
      Element("m:math", {}, <<Element("m:mi", {}, <<X, DashLeaf>>)>>),
      Element("m:math", {}, <<DashLeaf, Element("m:mn", {}, <<>>)>>),
      Row(<<Element("m:math", {}, <<DashLeaf>>)>>),
      X }

MathFragments == {Serialize(nodes) : nodes \in StringsUpTo(MathPieces, 2) \ {<<>>}}

InitMath ==
    /\ pc = "clean"
    /\ raw_html \in MathFragments
    /\ root = <<>>
    /\ stats = NoStats
    /\ notice = FALSE
    /\ cleaned = <<>>
    /\ run = 1
    /\ text = <<>>
    /\ task_number = None
    /\ italic_vars = <<"N", "R">>
    /\ IdleJob
    /\ IdleSplit
    /\ IdleMerge
    /\ IdleNormalize
    /\ out = <<>>

SpecMath == InitMath /\ [][NextClean]_vars

\* the text of the nodes, whitespace left out
ContentOf(nodes) == WordsOf(TextOf(Serialize(nodes)))

\* the whole text of the formula is the dash
OnlyDash(math_tag) == ContentOf(math_tag.kids) = <<Dash>>

\* the formula with the prefix m: taken off its names
Stripped(math_tag) == strip_prefixes(<<math_tag>>)[1]

\* the formulas that hold other text are in the tree, changed in their
\* names only
OtherFormulasKept(before, after) ==
    \A k \in 1..Len(FindAll(before, MathNames)) :
        LET math_tag == FindAll(before, MathNames)[k] IN
        ~OnlyDash(math_tag) =>
            \E j \in 1..Len(FindAll(after, {"math"})) :
                FindAll(after, {"math"})[j] = Stripped(math_tag)

\* every text of the formula is the text of a leaf element of LEAF_NAMES
TextInLeaves(math_tag) ==
    ContentOf(math_tag.kids) = WordsOf(Join(LeafTexts(math_tag.kids)))

\* C30: whenever clean_html replaces a formula by the dash, the whole text
\* of the formula, whitespace aside, was that dash; a formula that holds any
\* other text, in any element, is kept in place with only the prefix m:
\* taken off its tag names.
MathDashLosesNothing ==
    [][pc = "math" =>
         /\ ContentOf(root') = ContentOf(root)
         /\ OtherFormulasKept(root, root')]_vars

\* the same for the formulas whose text is all in leaf elements of
\* LEAF_NAMES
MathDashLosesNothingInLeaves ==
    [][(pc = "math"
         /\ \A k \in 1..Len(FindAll(root, MathNames)) :
                TextInLeaves(FindAll(root, MathNames)[k])) =>
         /\ ContentOf(root') = ContentOf(root)
         /\ OtherFormulasKept(root, root')]_vars

\* a formula that is the dash was replaced and a formula with two leaves
\* was kept
MathDashLosesNothingInLeavesWitness ==
    /\ pc = "anchors"
    /\ run = 1
    /\ stats.math_dash_replaced = 1
    /\ stats.math_kept = 1
    /\ ContentOf(root) = <<Dash, "x", Dash>>
    /\ Len(FindAll(root, {"math"})) = 1

====
